---- MODULE Spec2Model ----
(***************************************************************************)
(* A model of rustdis: the key-value store with its TTL reaper             *)
(* (src/store.rs), the commands that run against it (src/commands/*.rs),   *)
(* the per-connection driver (src/server.rs, src/connection.rs) and the    *)
(* RESP frame codec (src/frame.rs).                                        *)
(***************************************************************************)
EXTENDS Integers, Sequences, FiniteSets, TLC

VARIABLES
    state,      \* store.rs State: [keys: HashMap<Key, Value>, ttls: BTreeSet<(Instant, Key)>]
    lock,       \* holder of InnerStore.state (Mutex<State>): "free", a connection, "reaper", or "poisoned" by a panic
    permit,     \* InnerStore.waker (tokio Notify): TRUE when a notification is stored
    now,        \* the monotonic clock read by Instant::now()
    rpc,        \* where the reaper task stands in its loop: "top" or "wait"
    rnext,      \* the reaper's local next_expiration (Option<Instant>)
    rexpired,   \* the reaper's local expired_keys of its last sweep
    woke,       \* the select! branch that ended the reaper's last wait
    handles,    \* how many Store handles (clones of the Arc<InnerStore>) the server and its connections hold
    cpc,        \* per connection: position inside the command being executed
    ccmd,       \* per connection: the command being executed
    clocal,     \* per connection: the local `value` a command read from the store
    creply,     \* per connection: the reply frame the command returns
    csnap,      \* per connection: the State found when the command took the lock (history)
    done,       \* the commands finished so far with their replies, in the order they returned (history)
    net,        \* driver: frames the client sent that the server has not read from the socket yet
    peer,       \* driver: the client's end: "open", "closed", or "cut" (closed in the middle of a frame)
    sentlog,    \* driver: every frame the client sent, in order (history)
    buffer,     \* driver: Connection.buffer, as the complete frames it holds, then Partial for the bytes of a frame cut short
    taken,      \* driver: how many frames read_frame has returned (history)
    dframe,     \* driver: the frame read_frame returned last
    dpc,        \* driver: position in handle_connection: "read", "convert", "write", "closed"
    wbuf,       \* driver: the bytes of the current write_all not yet written
    out,        \* driver: every byte written to the socket so far
    dresult,    \* driver: how handle_connection ended: "none", "ok", "err", "reset", "panic"
    fframe,     \* codec: the Frame to serialize (Option)
    fin,        \* codec: the bytes handed to Frame::parse
    fres,       \* codec: what Frame::parse returned (Option)
    fpc,        \* codec: "frame", "wire" or "parsed"
    wire,       \* decoder: the bytes of the stream the socket has not delivered yet
    wframes,    \* decoder: the frames whose serializations make up the stream (history)
    rbuf,       \* decoder: src, the BytesMut handed to FrameCodec::decode
    items,      \* decoder: the frames decode has yielded, in order
    dstatus,    \* decoder: "open", or the error that ended decoding: "too_large", "error", "panic"
    dlast,      \* decoder: what the last call did: "fed", "none" (Ok(None)), "frame", "failed"
    limit       \* decoder: the value of FrameCodec::max_frame_size()

storeVars == <<state, lock, permit, now, rpc, rnext, rexpired, woke, handles>>
connVars == <<cpc, ccmd, clocal, creply, csnap, done>>
drvVars == <<net, peer, sentlog, buffer, taken, dframe, dpc, wbuf, out, dresult>>
frameVars == <<fframe, fin, fres, fpc>>
codecVars == <<wire, wframes, rbuf, items, dstatus, dlast, limit>>
vars == <<storeVars, connVars, drvVars, frameVars, codecVars>>

\* ------------------------------------------------------------------ bounds
MaxTime == 2
\* The clock (Instant) counts ticks; a Duration is a number of ticks.
TicksPerSec == 2
MaxTtl == 1
MaxDone == 2
MaxCount == 1

\* ------------------------------------------------------------------ basics
None == <<>>
Some(x) == <<x>>
IsSome(o) == o # <<>>
Unwrap(o) == o[1]

Conns == {"c1", "c2"}
\* the tasks that run store operations in the store specification
StoreConns == {"c1"}
Keys == {"a", "b"}
\* String's Ord, as BTreeSet<(Instant, Key)> uses it to break ties between instants
KeyOrd(k) == IF k = "a" THEN 1 ELSE 2

\* Byte strings are sequences of byte values: "1" is <<49>>, "x" is <<120>>.
\* The values written by the store operations of the store specification.
Datas == {<<49>>}

MapInsert(m, k, v) == [x \in (DOMAIN m) \cup {k} |-> IF x = k THEN v ELSE m[x]]
MapRemove(m, k) == [x \in (DOMAIN m) \ {k} |-> m[x]]
EmptyMap == [x \in {} |-> x]

\* The order of BTreeSet<(Instant, Key)>: by instant, then by key.
TtlLess(e, f) == e[1] < f[1] \/ (e[1] = f[1] /\ KeyOrd(e[2]) < KeyOrd(f[2]))
\* ttls.iter().next()
First(ts) == CHOOSE e \in ts : \A f \in ts \ {e} : TtlLess(e, f)

\* ------------------------------------------------------------------ store.rs
exists(S, key) == key \in DOMAIN S.keys

get(S, key) == IF key \in DOMAIN S.keys THEN Some(S.keys[key].data) ELSE None

removed_Nothing(S, key) == None

\* What remove returns: the Option<Value> taken out of keys.
removed(S, key) == IF key \in DOMAIN S.keys THEN Some(S.keys[key]) ELSE None

remove_KeepTtl(S, key) == [S EXCEPT !.keys = MapRemove(S.keys, key)]

remove(S, key) ==
    IF key \notin DOMAIN S.keys THEN S
    ELSE LET value == S.keys[key] IN
         [keys |-> MapRemove(S.keys, key),
          ttls |-> IF IsSome(value.expires_at)
                   THEN S.ttls \ {<<Unwrap(value.expires_at), key>>}
                   ELSE S.ttls]

set_NoRemove(S, key, data, t) ==
    [S EXCEPT !.keys = MapInsert(S.keys, key,
        [data |-> data, expires_at |-> None,
         created_at |-> IF key \in DOMAIN S.keys THEN S.keys[key].created_at ELSE t])]

set(S, key, data, t) ==
    LET old == removed(S, key)
        S1 == remove(S, key)
        created_at == IF IsSome(old) THEN Unwrap(old).created_at ELSE t
        value == [data |-> data, expires_at |-> None, created_at |-> created_at]
    IN  [S1 EXCEPT !.keys = MapInsert(S1.keys, key, value)]

set_with_ttl(S, key, data, ttl, t) ==
    LET old == removed(S, key)
        S1 == remove(S, key)
        created_at == IF IsSome(old) THEN Unwrap(old).created_at ELSE t
        expires_at == t + ttl
        value == [data |-> data, expires_at |-> Some(expires_at), created_at |-> created_at]
    IN  [keys |-> MapInsert(S1.keys, key, value),
         ttls |-> S1.ttls \cup {<<expires_at, key>>}]

set_with_ttl_notifies_Never(S, key, data, ttl, t) == FALSE

\* Whether set_with_ttl calls waker.notify_one(): the first entry of ttls is for key.
set_with_ttl_notifies(S, key, data, ttl, t) ==
    LET S2 == set_with_ttl(S, key, data, ttl, t) IN First(S2.ttls)[2] = key

get_ttl(S, key, t) ==
    IF key \in DOMAIN S.keys /\ IsSome(S.keys[key].expires_at)
    THEN LET expires_at == Unwrap(S.keys[key].expires_at) IN
         Some(IF expires_at > t THEN expires_at - t ELSE 0)
    ELSE None

remove_ttl(S, key, t) ==
    IF key \in DOMAIN S.keys /\ IsSome(S.keys[key].expires_at)
    THEN LET value == S.keys[key]
             S1 == [S EXCEPT !.ttls = S.ttls \ {<<Unwrap(value.expires_at), key>>}]
         IN  set(S1, key, value.data, t)
    ELSE S

size(S) == Cardinality(DOMAIN S.keys)

\* The expired_keys of remove_expired_keys: the entries at the head of ttls whose
\* instant is at or before now (ttls is ordered by instant first).
expired_keys(S, t) == {e \in S.ttls : e[1] <= t /\ \A f \in S.ttls : TtlLess(f, e) => f[1] <= t}

RECURSIVE remove_each(_, _)
remove_each(S, es) ==
    IF es = {} THEN S
    ELSE LET e == First(es)
             S1 == remove(S, e[2])
         IN  remove_each([S1 EXCEPT !.ttls = S1.ttls \ {e}], es \ {e})

remove_expired_keys_TtlsOnly(S, t) == [S EXCEPT !.ttls = S.ttls \ expired_keys(S, t)]

remove_expired_keys(S, t) == remove_each(S, expired_keys(S, t))

\* What remove_expired_keys returns: the instant of the first entry left in ttls.
next_expiration(S) == IF S.ttls = {} THEN None ELSE Some(First(S.ttls)[1])

\* ------------------------------------------------------------------ numbers as text
IsDigit(b) == b \in 48..57

RECURSIVE digits_value(_)
digits_value(s) == IF s = <<>> THEN 0 ELSE 10 * digits_value(SubSeq(s, 1, Len(s) - 1)) + (s[Len(s)] - 48)

\* str::parse::<i64>(): an optional sign, then at least one ASCII digit and nothing else.
\* [ok |-> FALSE] stands for every Err. The model keeps numbers far below 2^31.
parse_int(s) ==
    LET signed == s # <<>> /\ s[1] \in {43, 45}
        body == IF signed THEN Tail(s) ELSE s
    IN  IF body = <<>> \/ \E i \in 1..Len(body) : ~IsDigit(body[i])
        THEN [ok |-> FALSE, v |-> 0]
        ELSE [ok |-> TRUE, v |-> IF signed /\ s[1] = 45 THEN 0 - digits_value(body) ELSE digits_value(body)]

RECURSIVE nat_digits(_)
nat_digits(n) == IF n < 10 THEN <<48 + n>> ELSE Append(nat_digits(n \div 10), 48 + (n % 10))

\* format!("{:.0}", v) of a float without fractional part: sign and decimal digits.
\* to_f64 is exact below 2^53, which covers every number of the model.
format_int(n) == IF n < 0 THEN <<45>> \o nat_digits(0 - n) ELSE nat_digits(n)

\* incr_by::<i64, i64>: [state, ok, value], value being the Ok(R) returned.
incr_by(S, key, increment, t) ==
    LET cur == get(S, key)
        parsed == IF IsSome(cur) THEN parse_int(Unwrap(cur)) ELSE [ok |-> TRUE, v |-> 0]
    IN  IF ~parsed.ok
        THEN [state |-> S, ok |-> FALSE, value |-> 0]
        ELSE LET value == format_int(parsed.v + increment)
                 back == parse_int(value)
             IN  [state |-> set(S, key, value, t), ok |-> back.ok, value |-> back.v]

\* ------------------------------------------------------------------ the reaper task
\* store.rs, async fn remove_expired_keys: one pass of the loop body up to the await.
\* It takes the lock, sweeps, and releases the lock before it waits.
ReaperSweep ==
    /\ rpc = "top"
    /\ lock = "free"
    /\ rexpired' = expired_keys(state, now)
    /\ state' = remove_expired_keys(state, now)
    /\ rnext' = next_expiration(state')
    /\ rpc' = "wait"
    /\ UNCHANGED <<lock, permit, now, woke, connVars, drvVars, frameVars, codecVars, handles>>

\* select!: sleep_until(next_expiration) completes.
ReaperWakeTimer ==
    /\ rpc = "wait"
    /\ IsSome(rnext)
    /\ now >= Unwrap(rnext)
    /\ rpc' = "top"
    /\ woke' = "timer"
    /\ UNCHANGED <<state, lock, permit, now, rnext, rexpired, connVars, drvVars, frameVars, codecVars, handles>>

\* waker.notified() completes: it consumes the stored notification.
ReaperWakeNotified ==
    /\ rpc = "wait"
    /\ permit
    /\ permit' = FALSE
    /\ rpc' = "top"
    /\ woke' = "notify"
    /\ UNCHANGED <<state, lock, now, rnext, rexpired, connVars, drvVars, frameVars, codecVars, handles>>

Reaper == ReaperSweep \/ ReaperWakeTimer \/ ReaperWakeNotified

Tick ==
    /\ now < MaxTime
    /\ now' = now + 1
    /\ UNCHANGED <<state, lock, permit, rpc, rnext, rexpired, woke, connVars, drvVars, frameVars, codecVars, handles>>

\* ------------------------------------------------------------------ store operations under the lock
CanAcquire_Always(c) == TRUE

\* Mutex::lock returns only when no other task holds the guard.
CanAcquire(c) == lock = "free"

\* InnerStore::lock
Lock(c) ==
    /\ CanAcquire(c)
    /\ lock' = c
    /\ UNCHANGED <<state, permit, now, rpc, rnext, rexpired, woke, connVars, drvVars, frameVars, codecVars, handles>>

\* the MutexGuard is dropped
Unlock(c) ==
    /\ lock = c
    /\ lock' = "free"
    /\ UNCHANGED <<state, permit, now, rpc, rnext, rexpired, woke, connVars, drvVars, frameVars, codecVars, handles>>

OpSet(c, key, data) ==
    /\ lock = c
    /\ state' = set(state, key, data, now)
    /\ UNCHANGED <<lock, permit, now, rpc, rnext, rexpired, woke, connVars, drvVars, frameVars, codecVars, handles>>

OpSetWithTtl(c, key, data, ttl) ==
    /\ lock = c
    /\ state' = set_with_ttl(state, key, data, ttl, now)
    /\ permit' = (permit \/ set_with_ttl_notifies(state, key, data, ttl, now))
    /\ UNCHANGED <<lock, now, rpc, rnext, rexpired, woke, connVars, drvVars, frameVars, codecVars, handles>>

OpRemove(c, key) ==
    /\ lock = c
    /\ state' = remove(state, key)
    /\ UNCHANGED <<lock, permit, now, rpc, rnext, rexpired, woke, connVars, drvVars, frameVars, codecVars, handles>>

OpRemoveTtl(c, key) ==
    /\ lock = c
    /\ state' = remove_ttl(state, key, now)
    /\ UNCHANGED <<lock, permit, now, rpc, rnext, rexpired, woke, connVars, drvVars, frameVars, codecVars, handles>>

OpIncrBy(c, key) ==
    /\ lock = c
    /\ LET cur == get(state, key) IN
         IsSome(cur) /\ parse_int(Unwrap(cur)).ok => parse_int(Unwrap(cur)).v < MaxCount
    /\ state' = incr_by(state, key, 1, now).state
    /\ UNCHANGED <<lock, permit, now, rpc, rnext, rexpired, woke, connVars, drvVars, frameVars, codecVars, handles>>

StoreOp ==
    \E c \in StoreConns :
        \/ Lock(c)
        \/ Unlock(c)
        \/ \E key \in Keys, data \in Datas : OpSet(c, key, data)
        \/ \E key \in Keys, data \in Datas, ttl \in 0..MaxTtl : OpSetWithTtl(c, key, data, ttl)
        \/ \E key \in Keys : OpRemove(c, key)
        \/ \E key \in Keys : OpRemoveTtl(c, key)
        \/ \E key \in Keys : OpIncrBy(c, key)

\* Store::new: empty keys and ttls, no notification stored, the reaper spawned.
StoreInit ==
    /\ state = [keys |-> EmptyMap, ttls |-> {}]
    /\ lock = "free"
    /\ permit = FALSE
    /\ now = 0
    /\ rpc = "top"
    /\ rnext = None
    /\ rexpired = {}
    /\ woke = "none"
    /\ handles = 1

ConnIdle ==
    /\ cpc = [c \in Conns |-> "idle"]
    /\ ccmd = [c \in Conns |-> None]
    /\ clocal = [c \in Conns |-> None]
    /\ creply = [c \in Conns |-> None]
    /\ csnap = [c \in Conns |-> None]
    /\ done = <<>>

\* No connection driver runs.
DrvIdle ==
    /\ net = <<>>
    /\ peer = "open"
    /\ sentlog = <<>>
    /\ buffer = <<>>
    /\ taken = 0
    /\ dframe = None
    /\ dpc = "read"
    /\ wbuf = <<>>
    /\ out = <<>>
    /\ dresult = "none"

\* The codec is given nothing.
FrameIdle ==
    /\ fframe = None
    /\ fin = <<>>
    /\ fres = None
    /\ fpc = "parsed"

\* FrameCodec::max_frame_size() when MAX_FRAME_SIZE is not set: 512 * 1024 * 1024
DefaultMaxFrameSize == 536870912

\* The decoder is given nothing; the frame size limit is the default.
CodecIdle ==
    /\ wire = <<>>
    /\ wframes = <<>>
    /\ rbuf = <<>>
    /\ items = <<>>
    /\ dstatus = "open"
    /\ dlast = "fed"
    /\ limit = DefaultMaxFrameSize

Init == StoreInit /\ ConnIdle /\ DrvIdle /\ FrameIdle /\ CodecIdle

Next == StoreOp \/ Reaper \/ Tick

Spec == Init /\ [][Next]_vars

\* The reaper is scheduled, the lock is handed to it when it is free often enough,
\* and a lock hold ends (commands run synchronously while they hold the lock).
FairSpec ==
    /\ Spec
    /\ WF_vars(ReaperWakeTimer)
    /\ WF_vars(ReaperWakeNotified)
    /\ SF_vars(ReaperSweep)
    /\ \A c \in StoreConns : WF_vars(Unlock(c))

\* ------------------------------------------------------------------ the handles on the store
MaxHandles == 2

\* The strong count of the Arc<InnerStore>: one per Store handle and the clone
\* that Store::new moves into the reaper task, for as long as that task runs.
\* State (keys, ttls) is dropped when the count reaches zero.
strong_count == handles + (IF rpc = "done" THEN 0 ELSE 1)

\* Store::clone (derive(Clone)): one more handle on the same InnerStore
StoreClone ==
    /\ handles > 0
    /\ handles < MaxHandles
    /\ handles' = handles + 1
    /\ UNCHANGED <<state, lock, permit, now, rpc, rnext, rexpired, woke, connVars, drvVars, frameVars, codecVars>>

\* A Store handle is dropped; the last one only by a task that holds no guard.
StoreDrop ==
    /\ handles > 0
    /\ handles = 1 => lock = "free"
    /\ handles' = handles - 1
    /\ UNCHANGED <<state, lock, permit, now, rpc, rnext, rexpired, woke, connVars, drvVars, frameVars, codecVars>>

\* A task that holds a handle locks the store, writes a key with a TTL, unlocks.
HandleOp ==
    /\ handles > 0
    /\ \E c \in StoreConns :
          \/ Lock(c)
          \/ Unlock(c)
          \/ \E key \in Keys, ttl \in 0..MaxTtl : OpSetWithTtl(c, key, <<49>>, ttl)

HandlesNext == StoreClone \/ StoreDrop \/ HandleOp \/ Reaper \/ Tick

\* The store with handles cloned and dropped; the reaper task is scheduled and
\* the clock advances.
SpecHandles ==
    /\ Init /\ [][HandlesNext]_vars
    /\ WF_vars(Reaper)
    /\ WF_vars(Tick)

\* ------------------------------------------------------------------ frames
Simple(s) == [tag |-> "Simple", val |-> s]
Error(s) == [tag |-> "Error", val |-> s]
Integer(i) == [tag |-> "Integer", val |-> i]
Bulk(b) == [tag |-> "Bulk", val |-> b]
Null == [tag |-> "Null", val |-> <<>>]
Array(fs) == [tag |-> "Array", val |-> fs]

\* Exists::exec: the number of listed keys that exist.
RECURSIVE exists_count(_, _)
exists_count(S, ks) ==
    IF ks = <<>> THEN 0
    ELSE (IF exists(S, Head(ks)) THEN 1 ELSE 0) + exists_count(S, Tail(ks))

ExistsExec(S, ks) == Integer(exists_count(S, ks))

\* Duration::from_secs, Duration::from_millis (whole ticks for the values the model uses)
from_secs(n) == n * TicksPerSec
from_millis(n) == (n * TicksPerSec) \div 1000
\* Duration::as_secs, Duration::as_millis: the whole seconds, milliseconds of a duration
as_secs(d) == d \div TicksPerSec
as_millis(d) == (d * 1000) \div TicksPerSec

TtlExec_Nearest(S, key, t) ==
    LET ttl == IF exists(S, key) THEN -1 ELSE -2
        left == get_ttl(S, key, t)
    IN  Integer(IF IsSome(left) THEN (as_millis(Unwrap(left)) + 500) \div 1000 ELSE ttl)

\* Ttl::exec: -2 for an absent key, -1 for a key without TTL, else the whole seconds left.
TtlExec(S, key, t) ==
    LET ttl == IF exists(S, key) THEN -1 ELSE -2
        left == get_ttl(S, key, t)
    IN  Integer(IF IsSome(left) THEN as_secs(Unwrap(left)) ELSE ttl)

\* Pttl::exec: the same in milliseconds.
PttlExec(S, key, t) ==
    LET ttl == IF exists(S, key) THEN -1 ELSE -2
        left == get_ttl(S, key, t)
    IN  Integer(IF IsSome(left) THEN as_millis(Unwrap(left)) ELSE ttl)

\* ------------------------------------------------------------------ the frame codec (src/frame.rs)
CRLF == <<13, 10>>

\* What Frame::parse returns: Ok(frame) with the cursor at pos, Err(Incomplete),
\* another Err, or a panic; frame and pos mean nothing unless kind is "ok".
Res(kind, frame, pos) == [kind |-> kind, frame |-> frame, pos |-> pos]
Incomplete == Res("incomplete", Null, 0)
Failed == Res("error", Null, 0)
Panicked == Res("panic", Null, 0)

\* get_frame_bytes: the bytes from the cursor up to the first CRLF, and the cursor after it.
get_frame_bytes(src, pos) ==
    LET hits == {i \in pos..(Len(src) - 1) : src[i] = 13 /\ src[i + 1] = 10} IN
    IF hits = {} THEN [kind |-> "incomplete", bytes |-> <<>>, pos |-> pos]
    ELSE LET e == CHOOSE i \in hits : \A j \in hits : i <= j
         IN  [kind |-> "ok", bytes |-> SubSeq(src, pos, e - 1), pos |-> e + 2]

\* String::from_utf8 succeeds; exact for the bytes given to the commands that use
\* it, which are ASCII or 255.
is_utf8(bytes) == \A i \in 1..Len(bytes) : bytes[i] < 128

\* i64::to_string, usize::to_string
to_string(i) == format_int(i)

\* DataType::try_from(u8): "+", "-", ":", "$", "!", "*", "_" and the types parse leaves to todo!().
DataType(byte) ==
    CASE byte = 43 -> "SimpleString"
      [] byte = 45 -> "SimpleError"
      [] byte = 58 -> "Integer"
      [] byte = 36 -> "BulkString"
      [] byte = 33 -> "BulkError"
      [] byte = 42 -> "Array"
      [] byte = 95 -> "Null"
      [] byte \in {35, 44, 40, 61, 37, 126, 62} -> "Unsupported"
      [] OTHER -> "InvalidDataType"

\* The length line of "$", "!" and "*": get_frame_bytes, String::from_utf8, parse::<isize>.
parse_length(src, pos) ==
    LET line == get_frame_bytes(src, pos) IN
    IF line.kind # "ok" THEN [kind |-> "incomplete", v |-> 0, pos |-> pos]
    ELSE IF ~is_utf8(line.bytes) \/ ~parse_int(line.bytes).ok THEN [kind |-> "error", v |-> 0, pos |-> pos]
    ELSE [kind |-> "ok", v |-> parse_int(line.bytes).v, pos |-> line.pos]

RECURSIVE parse(_, _)
RECURSIVE parse_elements(_, _, _, _)
\* for _ in 0..length { frames.push(Self::parse(src)?) }
parse_elements(src, pos, n, frames) ==
    IF n <= 0 THEN Res("ok", Array(frames), pos)
    ELSE LET r == parse(src, pos) IN
         IF r.kind # "ok" THEN r
         ELSE parse_elements(src, r.pos, n - 1, Append(frames, r.frame))

\* Frame::parse, with the cursor at pos (1 is the first byte).
parse(src, pos) ==
    IF pos > Len(src) THEN Incomplete
    ELSE LET data_type == DataType(src[pos])
             line == get_frame_bytes(src, pos + 1)
             length == parse_length(src, pos + 1)
         IN
         CASE data_type = "InvalidDataType" -> Failed
           [] data_type = "Unsupported" -> Panicked
           [] data_type \in {"SimpleString", "SimpleError"} ->
                IF line.kind # "ok" THEN Incomplete
                ELSE IF ~is_utf8(line.bytes) THEN Failed
                ELSE Res("ok", IF data_type = "SimpleString" THEN Simple(line.bytes)
                               ELSE Error(line.bytes), line.pos)
           [] data_type = "Integer" ->
                IF line.kind # "ok" THEN Incomplete
                ELSE IF ~is_utf8(line.bytes) \/ ~parse_int(line.bytes).ok THEN Failed
                ELSE Res("ok", Integer(parse_int(line.bytes).v), line.pos)
           [] data_type \in {"BulkString", "BulkError"} ->
                IF length.kind = "incomplete" THEN Incomplete
                ELSE IF length.kind = "error" THEN Failed
                ELSE IF length.v = -1 THEN Res("ok", Null, length.pos)
                ELSE LET data == get_frame_bytes(src, length.pos) IN
                     IF data.kind # "ok" THEN Incomplete
                     ELSE IF data_type = "BulkString" THEN Res("ok", Bulk(data.bytes), data.pos)
                     ELSE IF ~is_utf8(data.bytes) THEN Failed
                     ELSE Res("ok", Error(data.bytes), data.pos)
           [] data_type = "Array" ->
                IF length.kind = "incomplete" THEN Incomplete
                ELSE IF length.kind = "error" THEN Failed
                ELSE IF length.v = -1 THEN Res("ok", Null, length.pos)
                \* Vec::with_capacity(length as usize): capacity overflow
                ELSE IF length.v < -1 THEN Panicked
                ELSE parse_elements(src, length.pos, length.v, <<>>)
           [] data_type = "Null" ->
                IF line.kind # "ok" THEN Incomplete ELSE Res("ok", Null, line.pos)

RECURSIVE serialize(_)
RECURSIVE serialize_all(_)
\* for frame in arr { bytes.extend(frame.serialize()) }
serialize_all(arr) ==
    IF arr = <<>> THEN <<>> ELSE serialize(Head(arr)) \o serialize_all(Tail(arr))

\* Frame::serialize
serialize(f) ==
    CASE f.tag = "Simple" -> <<43>> \o f.val \o CRLF
      [] f.tag = "Error" -> <<45>> \o f.val \o CRLF
      [] f.tag = "Integer" -> <<58>> \o to_string(f.val) \o CRLF
      [] f.tag = "Bulk" -> <<36>> \o to_string(Len(f.val)) \o CRLF \o f.val \o CRLF
      [] f.tag = "Null" -> <<95>> \o CRLF
      [] f.tag = "Array" -> <<42>> \o to_string(Len(f.val)) \o CRLF \o serialize_all(f.val)

RECURSIVE FrameEq(_, _)
\* PartialEq for Frame
FrameEq(f, g) ==
    /\ f.tag = g.tag
    /\ IF f.tag = "Array"
       THEN /\ Len(f.val) = Len(g.val)
            /\ \A i \in 1..Len(f.val) : FrameEq(f.val[i], g.val[i])
       ELSE f.val = g.val

\* ------------------------------------------------------------------ the codec on bounded inputs
MaxBulk == 2
MaxText == 2
MaxInt == 11
MaxArr == 2

RECURSIVE SeqsUpTo(_, _)
\* The sequences over S of length at most n.
SeqsUpTo(S, n) ==
    IF n = 0 THEN {<<>>}
    ELSE LET shorter == SeqsUpTo(S, n - 1) IN
         shorter \cup {Append(q, x) : q \in shorter, x \in S}

\* Bulk payloads hold any byte: NUL, LF, CR and a letter stand for them.
BulkBytes == {0, 10, 13, 97}
\* Simple and Error texts hold no CR and no LF.
TextBytes == {0, 97}

LeafFrames ==
    {Simple(t) : t \in SeqsUpTo(TextBytes, MaxText)}
    \cup {Error(t) : t \in SeqsUpTo(TextBytes, MaxText)}
    \cup {Integer(i) : i \in (0 - MaxInt)..MaxInt}
    \cup {Bulk(b) : b \in SeqsUpTo(BulkBytes, MaxBulk)}
    \cup {Null}

\* The elements the arrays are built from, arrays among them.
ElementFrames ==
    {Simple(<<97>>), Error(<<>>), Integer(-1), Null, Bulk(<<>>), Bulk(<<13>>),
     Array(<<>>), Array(<<Null>>), Array(<<Array(<<>>), Bulk(<<97>>)>>)}

ArrayFrames == {Array(fs) : fs \in SeqsUpTo(ElementFrames, MaxArr)}

CodecFrames == LeafFrames \cup ArrayFrames

\* "$<N>\r\n" followed by any bytes: complete, cut short, or without the closing CRLF.
RawBulkHeader(n) == <<36>> \o to_string(n) \o CRLF
RawBulkInputs ==
    {RawBulkHeader(n) \o body : n \in 0..MaxBulk, body \in SeqsUpTo(BulkBytes, MaxBulk + 2)}

\* Inputs that are not frames: a leading byte that names no type ("a", NUL), an
\* integer or a length that is no decimal number (":a", ":", ":1a", "$a", "*a",
\* "$", "*"), and a Bulk or Array length below -1, alone or followed by a line.
MalformedInputs ==
    {<<b>> \o CRLF : b \in {97, 0}}
    \cup {<<58>> \o t \o CRLF : t \in {<<97>>, <<>>, <<49, 97>>}}
    \cup {<<b>> \o t \o CRLF : b \in {36, 42}, t \in {<<97>>, <<>>}}
    \cup {<<b>> \o to_string(0 - n) \o CRLF \o rest :
              b \in {36, 42}, n \in 2..(MaxBulk + 1), rest \in {<<>>, <<97>> \o CRLF}}

\* A frame to send through serialize and parse, or raw bytes to parse.
FrameInit ==
    /\ StoreInit /\ ConnIdle /\ DrvIdle /\ CodecIdle
    /\ \/ /\ fframe \in {Some(f) : f \in CodecFrames}
          /\ fin = <<>>
          /\ fpc = "frame"
       \/ /\ fframe = None
          /\ fin \in RawBulkInputs \cup MalformedInputs
          /\ fpc = "wire"
    /\ fres = None

\* frame.serialize()
FrameSerialize ==
    /\ fpc = "frame"
    /\ fin' = serialize(Unwrap(fframe))
    /\ fpc' = "wire"
    /\ UNCHANGED <<fframe, fres, storeVars, connVars, drvVars, codecVars>>

\* Frame::parse(&mut Cursor::new(bytes))
FrameParse ==
    /\ fpc = "wire"
    /\ fres' = Some(parse(fin, 1))
    /\ fpc' = "parsed"
    /\ UNCHANGED <<fframe, fin, storeVars, connVars, drvVars, codecVars>>

FrameNext == FrameSerialize \/ FrameParse

SpecFrame == FrameInit /\ [][FrameNext]_vars

\* ------------------------------------------------------------------ the decoder (src/codec.rs)
MaxStream == 2
\* A value of MAX_FRAME_SIZE that the streams of the model can exceed.
SmallFrameSize == 8

decode_over_limit_AtLimit(src, max) == Len(src) >= max

\* src.len() > FrameCodec::max_frame_size()
decode_over_limit(src, max) == Len(src) > max

\* FrameCodec::decode: Err("frame size exceeds limit"), Ok(None), Ok(Some(frame)) with
\* src advanced past the frame, or the error or panic of Frame::parse.
decode(src, max) ==
    IF decode_over_limit(src, max) THEN [kind |-> "too_large", frame |-> Null, src |-> src]
    ELSE LET r == parse(src, 1) IN
         CASE r.kind = "ok" -> [kind |-> "frame", frame |-> r.frame, src |-> SubSeq(src, r.pos, Len(src))]
           [] r.kind = "incomplete" -> [kind |-> "none", frame |-> Null, src |-> src]
           [] OTHER -> [kind |-> r.kind, frame |-> Null, src |-> src]

\* The frames of the streams handed to the decoder.
StreamFrames ==
    {Simple(<<97>>), Integer(10), Null, Bulk(<<>>), Bulk(<<97, 13>>), Bulk(<<13, 10>>),
     Array(<<>>), Array(<<Bulk(<<97>>), Integer(-1)>>)}

RECURSIVE Concat(_)
Concat(ss) == IF ss = <<>> THEN <<>> ELSE Head(ss) \o Concat(Tail(ss))

StreamOf(frames) == Concat([i \in 1..Len(frames) |-> serialize(frames[i])])

\* A stream of serialized frames waits on the socket; MAX_FRAME_SIZE is unset or small.
CodecInit ==
    /\ StoreInit /\ ConnIdle /\ DrvIdle /\ FrameIdle
    /\ wframes \in SeqsUpTo(StreamFrames, MaxStream) \ {<<>>}
    /\ wire = StreamOf(wframes)
    /\ rbuf = <<>>
    /\ items = <<>>
    /\ dstatus = "open"
    /\ dlast = "fed"
    /\ limit \in {DefaultMaxFrameSize, SmallFrameSize}

\* The socket delivers the next chunk of the stream, of any size, into src.
CodecFeed ==
    /\ dstatus = "open"
    /\ \E n \in 1..Len(wire) :
        /\ rbuf' = rbuf \o SubSeq(wire, 1, n)
        /\ wire' = SubSeq(wire, n + 1, Len(wire))
    /\ dlast' = "fed"
    /\ UNCHANGED <<wframes, items, dstatus, limit, storeVars, connVars, drvVars, frameVars>>

\* decode(&mut src) is called on what is buffered.
CodecDecode ==
    /\ dstatus = "open"
    /\ LET r == decode(rbuf, limit) IN
       /\ rbuf' = r.src
       /\ items' = IF r.kind = "frame" THEN Append(items, r.frame) ELSE items
       /\ dstatus' = IF r.kind \in {"frame", "none"} THEN "open" ELSE r.kind
       /\ dlast' = IF r.kind \in {"frame", "none"} THEN r.kind ELSE "failed"
    /\ UNCHANGED <<wire, wframes, limit, storeVars, connVars, drvVars, frameVars>>

CodecNext == CodecFeed \/ CodecDecode

SpecCodec == CodecInit /\ [][CodecNext]_vars

\* ------------------------------------------------------------------ command parsing (src/commands/mod.rs)
\* str::to_lowercase on ASCII text
to_lowercase(s) == [i \in 1..Len(s) |-> IF s[i] \in 65..90 THEN s[i] + 32 ELSE s[i]]

\* The String with these UTF-8 bytes, for the keys of the model: "a" and "b".
Str(bytes) == IF bytes = <<97>> THEN "a" ELSE "b"
KeyBytes == {<<97>>, <<98>>}

\* What a CommandParser method returns: Ok(v) with the parts left, or a CommandParserError.
PR(kind, v, rest) == [kind |-> kind, v |-> v, rest |-> rest]

\* CommandParser::parse_command_name
parse_command_name(parts) ==
    IF parts = <<>> THEN PR("EndOfStream", <<>>, parts)
    ELSE LET f == Head(parts) IN
         CASE f.tag = "Simple" -> PR("ok", to_lowercase(f.val), Tail(parts))
           [] f.tag = "Bulk" -> IF is_utf8(f.val) THEN PR("ok", to_lowercase(f.val), Tail(parts))
                                ELSE PR("InvalidUTF8String", <<>>, Tail(parts))
           [] OTHER -> PR("InvalidFrame", <<>>, Tail(parts))

\* CommandParser::next_string
next_string(parts) ==
    IF parts = <<>> THEN PR("EndOfStream", <<>>, parts)
    ELSE LET f == Head(parts) IN
         CASE f.tag = "Simple" -> PR("ok", f.val, Tail(parts))
           [] f.tag = "Bulk" -> IF is_utf8(f.val) THEN PR("ok", f.val, Tail(parts))
                                ELSE PR("InvalidUTF8String", <<>>, Tail(parts))
           [] OTHER -> PR("InvalidFrame", <<>>, Tail(parts))

\* CommandParser::next_integer
next_integer(parts) ==
    IF parts = <<>> THEN PR("EndOfStream", 0, parts)
    ELSE LET f == Head(parts) IN
         CASE f.tag = "Integer" -> PR("ok", f.val, Tail(parts))
           [] f.tag = "Simple" -> IF parse_int(f.val).ok THEN PR("ok", parse_int(f.val).v, Tail(parts))
                                  ELSE PR("InvalidFrame", 0, Tail(parts))
           [] f.tag = "Bulk" -> IF ~is_utf8(f.val) THEN PR("InvalidUTF8String", 0, Tail(parts))
                                ELSE IF parse_int(f.val).ok THEN PR("ok", parse_int(f.val).v, Tail(parts))
                                ELSE PR("InvalidFrame", 0, Tail(parts))
           [] OTHER -> PR("InvalidFrame", 0, Tail(parts))

next_bytes_Peek(parts) ==
    IF parts = <<>> THEN PR("EndOfStream", <<>>, parts)
    ELSE LET f == Head(parts) IN
         IF f.tag \in {"Simple", "Bulk"} THEN PR("ok", f.val, parts)
         ELSE PR("InvalidFrame", <<>>, parts)

\* CommandParser::next_bytes
next_bytes(parts) ==
    IF parts = <<>> THEN PR("EndOfStream", <<>>, parts)
    ELSE LET f == Head(parts) IN
         IF f.tag \in {"Simple", "Bulk"} THEN PR("ok", f.val, Tail(parts))
         ELSE PR("InvalidFrame", <<>>, Tail(parts))

\* What a command's try_from returns: Ok(cmd) or the error.
Parsed(cmd) == [kind |-> "ok", cmd |-> cmd]
Rejected(kind) == [kind |-> kind, cmd |-> None]

\* The names Command::try_from dispatches on.
CommandNames ==
    { <<97, 112, 112, 101, 110, 100>>,  \* append
      <<99, 108, 105, 101, 110, 116>>,  \* client
      <<99, 111, 109, 109, 97, 110, 100>>,  \* command
      <<99, 111, 110, 102, 105, 103>>,  \* config
      <<100, 98, 115, 105, 122, 101>>,  \* dbsize
      <<100, 101, 99, 114>>,  \* decr
      <<100, 101, 99, 114, 98, 121>>,  \* decrby
      <<100, 101, 108>>,  \* del
      <<101, 120, 105, 115, 116, 115>>,  \* exists
      <<103, 101, 116>>,  \* get
      <<103, 101, 116, 100, 101, 108>>,  \* getdel
      <<103, 101, 116, 114, 97, 110, 103, 101>>,  \* getrange
      <<105, 110, 99, 114>>,  \* incr
      <<105, 110, 99, 114, 98, 121>>,  \* incrby
      <<105, 110, 102, 111>>,  \* info
      <<107, 101, 121, 115>>,  \* keys
      <<108, 99, 115>>,  \* lcs
      <<109, 101, 109, 111, 114, 121>>,  \* memory
      <<109, 103, 101, 116>>,  \* mget
      <<109, 111, 100, 117, 108, 101>>,  \* module
      <<111, 98, 106, 101, 99, 116>>,  \* object
      <<112, 105, 110, 103>>,  \* ping
      <<115, 99, 97, 110>>,  \* scan
      <<115, 101, 108, 101, 99, 116>>,  \* select
      <<115, 101, 116>>,  \* set
      <<115, 101, 116, 110, 120>>,  \* setnx
      <<115, 101, 116, 114, 97, 110, 103, 101>>,  \* setrange
      <<115, 116, 114, 108, 101, 110>>,  \* strlen
      <<116, 116, 108>>,  \* ttl
      <<116, 121, 112, 101>> }  \* type

\* The SET options: "EX", "PX", "EXAT", "PXAT", "KEEPTTL", "NX", "XX", "GET".
SetOption ==
    [EX |-> <<69, 88>>, PX |-> <<80, 88>>, EXAT |-> <<69, 88, 65, 84>>, PXAT |-> <<80, 88, 65, 84>>,
     KEEPTTL |-> <<75, 69, 69, 80, 84, 84, 76>>, NX |-> <<78, 88>>, XX |-> <<88, 88>>, GET |-> <<71, 69, 84>>]
TtlKind(option) ==
    CASE option = SetOption.EX -> "EX" [] option = SetOption.PX -> "PX" [] option = SetOption.EXAT -> "EXAT"
      [] option = SetOption.PXAT -> "PXAT"

RECURSIVE set_options(_, _)
\* Set::try_from, the loop over the options; cmd holds what was parsed so far.
set_options(parts, cmd) ==
    LET o == next_string(parts) IN
    IF o.kind = "EndOfStream" THEN Parsed(cmd)
    ELSE IF o.kind # "ok" THEN Rejected(o.kind)
    ELSE CASE o.v \in {SetOption.EX, SetOption.PX, SetOption.EXAT, SetOption.PXAT} /\ ~IsSome(cmd.ttl) ->
                LET val == next_integer(o.rest) IN
                IF val.kind # "ok" THEN Rejected(val.kind)
                ELSE set_options(val.rest, [cmd EXCEPT !.ttl = Some([kind |-> TtlKind(o.v), n |-> val.v])])
           [] o.v = SetOption.KEEPTTL /\ ~IsSome(cmd.ttl) ->
                set_options(o.rest, [cmd EXCEPT !.ttl = Some([kind |-> "KEEPTTL", n |-> 0])])
           [] o.v = SetOption.NX /\ cmd.behavior = "none" -> set_options(o.rest, [cmd EXCEPT !.behavior = "NX"])
           [] o.v = SetOption.XX /\ cmd.behavior = "none" -> set_options(o.rest, [cmd EXCEPT !.behavior = "XX"])
           [] o.v = SetOption.GET -> set_options(o.rest, [cmd EXCEPT !.get = TRUE])
           [] OTHER -> Rejected("InvalidCommandArgument")

SetTryFrom_NoOptions(parts) ==
    LET key == next_string(parts)
        value == next_bytes(key.rest)
    IN  IF key.kind # "ok" THEN Rejected(key.kind)
        ELSE IF value.kind # "ok" THEN Rejected(value.kind)
        ELSE Parsed([op |-> "set", key |-> Str(key.v), value |-> value.v,
                     ttl |-> None, behavior |-> "none", get |-> FALSE])

\* Set::try_from
SetTryFrom(parts) ==
    LET key == next_string(parts)
        value == next_bytes(key.rest)
    IN  IF key.kind # "ok" THEN Rejected(key.kind)
        ELSE IF value.kind # "ok" THEN Rejected(value.kind)
        ELSE set_options(value.rest, [op |-> "set", key |-> Str(key.v), value |-> value.v,
                                      ttl |-> None, behavior |-> "none", get |-> FALSE])

\* Get::try_from, Type::try_from: one key
KeyTryFrom(op, parts) ==
    LET key == next_string(parts) IN
    IF key.kind # "ok" THEN Rejected(key.kind) ELSE Parsed([op |-> op, key |-> Str(key.v)])

RECURSIVE exists_keys(_, _)
\* Exists::try_from: keys up to the end of the parts, at least one
exists_keys(parts, keys) ==
    LET key == next_string(parts) IN
    IF key.kind = "ok" THEN exists_keys(key.rest, Append(keys, Str(key.v)))
    ELSE IF key.kind = "EndOfStream" /\ keys # <<>> THEN Parsed([op |-> "exists", keys |-> keys])
    ELSE Rejected(key.kind)

\* "docs"
SubDocs == <<100, 111, 99, 115>>

\* Command_::try_from
CommandTryFrom(parts) ==
    LET sub == next_string(parts) IN
    IF sub.kind = "ok"
    THEN (IF to_lowercase(sub.v) = SubDocs THEN Parsed([op |-> "command", sub |-> "docs"])
          ELSE Rejected("UnknownCommand"))
    ELSE IF sub.kind = "EndOfStream" THEN Parsed([op |-> "command", sub |-> "root"])
    ELSE Rejected(sub.kind)

\* Command::try_from(frame). The argument parsers of the commands the connection
\* driver has an arm for are spelled out; another command keeps its parts.
try_from(frame) ==
    IF frame.tag # "Array" THEN Rejected("InvalidFrame")
    ELSE LET name == parse_command_name(frame.val) IN
         IF name.kind # "ok" THEN Rejected(name.kind)
         ELSE IF name.v \notin CommandNames THEN Rejected("UnknownCommand")
         ELSE CASE name.v = <<103, 101, 116>> -> KeyTryFrom("get", name.rest)
                [] name.v = <<116, 121, 112, 101>> -> KeyTryFrom("type", name.rest)
                [] name.v = <<115, 101, 116>> -> SetTryFrom(name.rest)
                [] name.v = <<101, 120, 105, 115, 116, 115>> -> exists_keys(name.rest, <<>>)
                [] name.v = <<99, 111, 109, 109, 97, 110, 100>> -> CommandTryFrom(name.rest)
                [] name.v = <<100, 98, 115, 105, 122, 101>> -> Parsed([op |-> "dbsize"])
                [] name.v = <<105, 110, 102, 111>> -> Parsed([op |-> "info"])
                [] name.v = <<99, 108, 105, 101, 110, 116>> -> Parsed([op |-> "client"])
                [] name.v = <<109, 111, 100, 117, 108, 101>> -> Parsed([op |-> "module"])
                [] name.v = <<99, 111, 110, 102, 105, 103>> -> Parsed([op |-> "config"])
                [] OTHER -> Parsed([op |-> "other", name |-> name.v, parts |-> name.rest])

\* ------------------------------------------------------------------ the connection driver (src/server.rs, src/connection.rs)
MaxFrames == 2

\* The literal replies: b"+OK\r\n", b":0\r\n", b":1\r\n", b"+string\r\n"
Reply ==
    [ok |-> <<43, 79, 75, 13, 10>>, zero |-> <<58, 48, 13, 10>>, one |-> <<58, 49, 13, 10>>,
     string |-> <<43, 115, 116, 114, 105, 110, 103, 13, 10>>]

\* The body of handle_connection's loop for one frame, from the State S: the
\* bytes handed to write_all and the State left, or how the task ends instead.
Handled(kind, bytes, S) == [kind |-> kind, bytes |-> bytes, state |-> S]
Handle(frame, S, t) ==
    LET r == try_from(frame) IN
    IF r.kind # "ok" THEN Handled("err", <<>>, S)
    ELSE LET cmd == r.cmd IN
         CASE cmd.op = "get" ->
                IF IsSome(get(S, cmd.key))
                THEN Handled("reply", serialize(Bulk(Unwrap(get(S, cmd.key)))), S)
                ELSE Handled("panic", <<>>, S)
           [] cmd.op = "set" -> Handled("reply", Reply.ok, set(S, cmd.key, cmd.value, t))
           [] cmd.op = "exists" -> Handled("reply", Reply.zero, S)
           [] cmd.op = "dbsize" -> Handled("reply", Reply.one, S)
           [] cmd.op = "type" -> Handled("reply", Reply.string, S)
           [] cmd.op \in {"info", "client", "module", "command", "config"} ->
                Handled("reply", Reply.ok, S)

\* The frames the client of the driver specification sends: SET a x, GET a, GET b,
\* EXISTS a, DBSIZE, FOO, an empty array, a frame that is no array, SET a x BAD.
ClientFrames ==
    { Array(<<Bulk(<<83, 69, 84>>), Bulk(<<97>>), Bulk(<<120>>)>>),
      Array(<<Bulk(<<71, 69, 84>>), Bulk(<<97>>)>>),
      Array(<<Bulk(<<71, 69, 84>>), Bulk(<<98>>)>>),
      Array(<<Bulk(<<69, 88, 73, 83, 84, 83>>), Bulk(<<97>>)>>),
      Array(<<Bulk(<<68, 66, 83, 73, 90, 69>>)>>),
      Array(<<Bulk(<<70, 79, 79>>)>>),
      Array(<<>>),
      Simple(<<71, 69, 84>>),
      Array(<<Bulk(<<83, 69, 84>>), Bulk(<<97>>), Bulk(<<120>>), Bulk(<<66, 65, 68>>)>>) }

\* The client writes a whole frame to its socket.
ClientSend(f) ==
    /\ peer = "open"
    /\ Len(sentlog) < MaxFrames
    /\ net' = Append(net, f)
    /\ sentlog' = Append(sentlog, f)
    /\ UNCHANGED <<peer, buffer, taken, dframe, dpc, wbuf, out, dresult, storeVars, connVars, frameVars, codecVars>>

\* The first bytes of a frame whose rest never comes.
Partial == [tag |-> "Partial", val |-> <<>>]

\* The client closes its end, between frames or in the middle of one: the bytes
\* it wrote of the frame it did not finish are on the socket.
ClientClose(how) ==
    /\ peer = "open"
    /\ peer' = how
    /\ net' = IF how = "cut" THEN Append(net, Partial) ELSE net
    /\ UNCHANGED <<sentlog, buffer, taken, dframe, dpc, wbuf, out, dresult, storeVars, connVars, frameVars, codecVars>>

\* Frame::can_parse(&self.buffer): a whole frame is buffered.
can_parse(buf) == buf # <<>> /\ Head(buf) # Partial

parse_frame_Last(buf) == buf[Len(buf)]

\* Connection::parse_frame: the first frame of the buffer
parse_frame(buf) == Head(buf)

\* read_frame: a frame is buffered, parse_frame returns it and advances the buffer.
DrvParseFrame ==
    /\ dpc = "read"
    /\ can_parse(buffer)
    /\ dframe' = Some(parse_frame(buffer))
    /\ buffer' = Tail(buffer)
    /\ taken' = taken + 1
    /\ dpc' = "convert"
    /\ UNCHANGED <<net, peer, sentlog, wbuf, out, dresult, storeVars, connVars, frameVars, codecVars>>

\* read_frame: no frame is buffered, read_buf takes what the socket holds: one frame or several.
DrvReadBuf ==
    /\ dpc = "read"
    /\ ~can_parse(buffer)
    /\ \E n \in 1..Len(net) :
        /\ buffer' = buffer \o SubSeq(net, 1, n)
        /\ net' = SubSeq(net, n + 1, Len(net))
    /\ UNCHANGED <<peer, sentlog, taken, dframe, dpc, wbuf, out, dresult, storeVars, connVars, frameVars, codecVars>>

DrvEof_AlwaysClean ==
    /\ dpc = "read"
    /\ ~can_parse(buffer)
    /\ net = <<>>
    /\ peer # "open"
    /\ dpc' = "closed"
    /\ dresult' = "ok"
    /\ UNCHANGED <<net, peer, sentlog, buffer, taken, dframe, wbuf, out, storeVars, connVars, frameVars, codecVars>>

\* read_frame: read_buf returns 0. Ok(None) ends the loop when the buffer is empty;
\* the bytes of a frame cut short make it Err("connection reset by peer").
DrvEof ==
    /\ dpc = "read"
    /\ ~can_parse(buffer)
    /\ net = <<>>
    /\ peer # "open"
    /\ dpc' = "closed"
    /\ dresult' = IF buffer = <<>> THEN "ok" ELSE "reset"
    /\ UNCHANGED <<net, peer, sentlog, buffer, taken, dframe, wbuf, out, storeVars, connVars, frameVars, codecVars>>

\* Command::try_from(frame)? and the match on the command, up to the call of write_all.
\* get and set lock the store for the call.
DrvConvert ==
    /\ dpc = "convert"
    /\ CanAcquire("driver")
    /\ LET h == Handle(Unwrap(dframe), state, now) IN
       /\ state' = h.state
       /\ wbuf' = h.bytes
       /\ dpc' = IF h.kind = "reply" THEN "write" ELSE "closed"
       /\ dresult' = IF h.kind = "reply" THEN dresult ELSE h.kind
    /\ UNCHANGED <<net, peer, sentlog, buffer, taken, dframe, out, lock, permit, now, rpc, rnext,
                   rexpired, woke, connVars, frameVars, codecVars, handles>>

\* write_all(..).await: the socket takes some of the bytes; the loop goes on when it took them all.
DrvWrite ==
    /\ dpc = "write"
    /\ \E n \in 1..Len(wbuf) :
        /\ out' = out \o SubSeq(wbuf, 1, n)
        /\ wbuf' = SubSeq(wbuf, n + 1, Len(wbuf))
        /\ dpc' = IF n = Len(wbuf) THEN "read" ELSE "write"
    /\ UNCHANGED <<net, peer, sentlog, buffer, taken, dframe, dresult, storeVars, connVars, frameVars, codecVars>>

ConnNext ==
    \/ \E f \in ClientFrames : ClientSend(f)
    \/ \E how \in {"closed", "cut"} : ClientClose(how)
    \/ DrvParseFrame
    \/ DrvReadBuf
    \/ DrvEof
    \/ DrvConvert
    \/ DrvWrite

\* One client and the driver of its connection.
SpecConn == Init /\ [][ConnNext]_vars

\* ------------------------------------------------------------------ commands (src/commands)
NullBulkString == [tag |-> "NullBulkString", val |-> <<>>]
\* "OK"
OK == <<79, 75>>
\* "value is not an integer or out of range"
ErrNotInteger ==
    <<118, 97, 108, 117, 101, 32, 105, 115, 32, 110, 111, 116, 32, 97, 110, 32, 105, 110, 116, 101, 103, 101, 114, 32, 111, 114, 32, 111, 117, 116, 32, 111, 102, 32, 114, 97, 110, 103, 101>>
\* "ERR wrong number of arguments for command"
ErrWrongArgs ==
    <<69, 82, 82, 32, 119, 114, 111, 110, 103, 32, 110, 117, 109, 98, 101, 114, 32, 111, 102, 32, 97, 114, 103, 117, 109, 101, 110, 116, 115, 32, 102, 111, 114, 32, 99, 111, 109, 109, 97, 110, 100>>

\* set.rs Ttl::duration: Ex(n) lasts n seconds, every other option one second.
duration(ttl) == IF ttl.kind = "EX" THEN from_secs(ttl.n) ELSE from_secs(1)

\* Instant::now() + ttl panics when the sum is beyond what an Instant holds, as
\* it is for the seconds that `val as u64` makes of a negative val: 2^64 + val.
instant_overflows(ttl) == ttl.kind = "EX" /\ ttl.n < 0

\* Incr::exec
IncrExec(S, cmd, t) ==
    LET r == incr_by(S, cmd.key, 1, t) IN
    [state |-> r.state, notify |-> FALSE,
     reply |-> IF r.ok THEN Simple(OK) ELSE Error(ErrNotInteger)]

\* Append::exec
AppendExec(S, cmd, t) ==
    LET cur == get(S, cmd.key)
        new_value == IF IsSome(cur) THEN Unwrap(cur) \o cmd.value ELSE cmd.value
    IN  [state |-> set(S, cmd.key, new_value, t), notify |-> FALSE,
         reply |-> Integer(Len(new_value))]

SetExec_NoGuard(S, cmd, t) ==
    [state |-> IF IsSome(cmd.ttl)
               THEN set_with_ttl(S, cmd.key, cmd.value, duration(Unwrap(cmd.ttl)), t)
               ELSE set(S, cmd.key, cmd.value, t),
     notify |-> IsSome(cmd.ttl)
                /\ set_with_ttl_notifies(S, cmd.key, cmd.value, duration(Unwrap(cmd.ttl)), t),
     reply |-> IF cmd.get
               THEN (IF IsSome(get(S, cmd.key)) THEN Bulk(Unwrap(get(S, cmd.key))) ELSE NullBulkString)
               ELSE Simple(OK)]

\* Set::exec
SetExec(S, cmd, t) ==
    LET value == get(S, cmd.key) IN
    IF (cmd.behavior = "NX" /\ IsSome(value)) \/ (cmd.behavior = "XX" /\ ~IsSome(value))
    THEN [state |-> S, notify |-> FALSE, reply |-> NullBulkString]
    ELSE IF IsSome(cmd.ttl) /\ instant_overflows(Unwrap(cmd.ttl))
    THEN [state |-> remove(S, cmd.key), notify |-> FALSE, reply |-> None]
    ELSE [state |-> IF IsSome(cmd.ttl)
                    THEN set_with_ttl(S, cmd.key, cmd.value, duration(Unwrap(cmd.ttl)), t)
                    ELSE set(S, cmd.key, cmd.value, t),
          notify |-> IsSome(cmd.ttl)
                     /\ set_with_ttl_notifies(S, cmd.key, cmd.value, duration(Unwrap(cmd.ttl)), t),
          reply |-> IF cmd.get
                    THEN (IF IsSome(value) THEN Bulk(Unwrap(value)) ELSE NullBulkString)
                    ELSE Simple(OK)]

RECURSIVE set_all(_, _, _)
set_all(S, pairs, t) ==
    IF pairs = <<>> THEN S
    ELSE set_all(set(S, Head(pairs)[1], Head(pairs)[2], t), Tail(pairs), t)

\* Msetnx::exec
MsetnxExec(S, cmd, t) ==
    IF cmd.pairs = <<>>
    THEN [state |-> S, notify |-> FALSE, reply |-> Error(ErrWrongArgs)]
    ELSE IF \E i \in 1..Len(cmd.pairs) : exists(S, cmd.pairs[i][1])
    THEN [state |-> S, notify |-> FALSE, reply |-> Integer(0)]
    ELSE [state |-> set_all(S, cmd.pairs, t), notify |-> FALSE, reply |-> Integer(1)]

mget_value(S, key) == IF IsSome(get(S, key)) THEN Bulk(Unwrap(get(S, key))) ELSE Null

\* Mget::exec
MgetExec(S, cmd, t) ==
    [state |-> S, notify |-> FALSE,
     reply |-> IF cmd.keys = <<>> THEN Error(ErrWrongArgs)
               ELSE Array([i \in 1..Len(cmd.keys) |-> mget_value(S, cmd.keys[i])])]

\* Command::exec: the command as one step from the State it finds.
CmdExec(S, cmd, t) ==
    CASE cmd.op = "incr" -> IncrExec(S, cmd, t)
      [] cmd.op = "append" -> AppendExec(S, cmd, t)
      [] cmd.op = "set" -> SetExec(S, cmd, t)
      [] cmd.op = "msetnx" -> MsetnxExec(S, cmd, t)
      [] cmd.op = "mget" -> MgetExec(S, cmd, t)

\* ------------------------------------------------------------------ commands run by concurrent connections
\* The commands the connections of the concurrency specification send.
ConcCmds ==
    { [op |-> "incr", key |-> "a"],
      [op |-> "append", key |-> "a", value |-> <<49>>],
      [op |-> "set", key |-> "a", value |-> <<120>>, ttl |-> None, behavior |-> "NX", get |-> FALSE],
      [op |-> "set", key |-> "b", value |-> <<121>>, ttl |-> Some([kind |-> "EX", n |-> 1]),
       behavior |-> "none", get |-> FALSE],
      [op |-> "msetnx", pairs |-> << <<"a", <<120>> >>, <<"b", <<121>> >> >>],
      [op |-> "mget", keys |-> <<"a", "b">>] }

InFlight == {c \in Conns : cpc[c] # "idle"}

\* exec is called: the command is about to lock the store.
CmdStart(c, cmd) ==
    /\ cpc[c] = "idle"
    /\ Len(done) + Cardinality(InFlight) < MaxDone
    /\ ccmd' = [ccmd EXCEPT ![c] = cmd]
    /\ cpc' = [cpc EXCEPT ![c] = "lock"]
    /\ clocal' = [clocal EXCEPT ![c] = None]
    /\ creply' = [creply EXCEPT ![c] = None]
    /\ UNCHANGED <<storeVars, csnap, done, drvVars, frameVars, codecVars>>

\* store.lock()
CmdAcquire(c) ==
    /\ cpc[c] = "lock"
    /\ CanAcquire(c)
    /\ lock' = c
    /\ csnap' = [csnap EXCEPT ![c] = state]
    /\ cpc' = [cpc EXCEPT ![c] = "read"]
    /\ UNCHANGED <<state, permit, now, rpc, rnext, rexpired, woke, ccmd, clocal, creply, done, drvVars, frameVars, codecVars, handles>>

\* The reads a command makes of the store before it writes.
CmdRead(c) ==
    /\ cpc[c] = "read"
    /\ LET cmd == ccmd[c] IN
       CASE cmd.op \in {"incr", "append"} ->
              /\ clocal' = [clocal EXCEPT ![c] = get(state, cmd.key)]
              /\ cpc' = [cpc EXCEPT ![c] = "write"]
              /\ UNCHANGED creply
         [] cmd.op = "set" ->
              LET value == get(state, cmd.key)
                  refused == \/ (cmd.behavior = "NX" /\ IsSome(value))
                             \/ (cmd.behavior = "XX" /\ ~IsSome(value))
              IN  /\ clocal' = [clocal EXCEPT ![c] = value]
                  /\ cpc' = [cpc EXCEPT ![c] = IF refused THEN "unlock" ELSE "write"]
                  /\ creply' = [creply EXCEPT ![c] = IF refused THEN NullBulkString ELSE @]
         [] cmd.op = "msetnx" ->
              LET found == \E i \in 1..Len(cmd.pairs) : exists(state, cmd.pairs[i][1])
              IN  /\ clocal' = [clocal EXCEPT ![c] = Some(1)]
                  /\ cpc' = [cpc EXCEPT ![c] = IF found THEN "unlock" ELSE "write"]
                  /\ creply' = [creply EXCEPT ![c] = IF found THEN Integer(0) ELSE @]
         [] cmd.op = "mget" ->
              /\ creply' = [creply EXCEPT ![c] = MgetExec(state, cmd, now).reply]
              /\ cpc' = [cpc EXCEPT ![c] = "unlock"]
              /\ UNCHANGED clocal
    /\ UNCHANGED <<storeVars, ccmd, csnap, done, drvVars, frameVars, codecVars>>

\* The writes of a command: one store.set or store.set_with_ttl call per step.
CmdWrite(c) ==
    /\ cpc[c] = "write"
    /\ LET cmd == ccmd[c] IN
       CASE cmd.op = "incr" ->
              LET parsed == IF IsSome(clocal[c]) THEN parse_int(Unwrap(clocal[c]))
                            ELSE [ok |-> TRUE, v |-> 0]
              IN  /\ state' = IF parsed.ok THEN set(state, cmd.key, format_int(parsed.v + 1), now)
                              ELSE state
                  /\ creply' = [creply EXCEPT ![c] = IF parsed.ok THEN Simple(OK)
                                                     ELSE Error(ErrNotInteger)]
                  /\ cpc' = [cpc EXCEPT ![c] = "unlock"]
                  /\ UNCHANGED <<permit, clocal>>
         [] cmd.op = "append" ->
              LET new_value == IF IsSome(clocal[c]) THEN Unwrap(clocal[c]) \o cmd.value
                               ELSE cmd.value
              IN  /\ state' = set(state, cmd.key, new_value, now)
                  /\ creply' = [creply EXCEPT ![c] = Integer(Len(new_value))]
                  /\ cpc' = [cpc EXCEPT ![c] = "unlock"]
                  /\ UNCHANGED <<permit, clocal>>
         [] cmd.op = "set" ->
              /\ IF IsSome(cmd.ttl)
                 THEN /\ state' = set_with_ttl(state, cmd.key, cmd.value, duration(Unwrap(cmd.ttl)), now)
                      /\ permit' = (permit \/ set_with_ttl_notifies(state, cmd.key, cmd.value,
                                                                    duration(Unwrap(cmd.ttl)), now))
                 ELSE /\ state' = set(state, cmd.key, cmd.value, now)
                      /\ UNCHANGED permit
              /\ creply' = [creply EXCEPT ![c] =
                    IF cmd.get
                    THEN (IF IsSome(clocal[c]) THEN Bulk(Unwrap(clocal[c])) ELSE NullBulkString)
                    ELSE Simple(OK)]
              /\ cpc' = [cpc EXCEPT ![c] = "unlock"]
              /\ UNCHANGED clocal
         [] cmd.op = "msetnx" ->
              LET i == Unwrap(clocal[c]) IN
              /\ state' = set(state, cmd.pairs[i][1], cmd.pairs[i][2], now)
              /\ clocal' = [clocal EXCEPT ![c] = Some(i + 1)]
              /\ cpc' = [cpc EXCEPT ![c] = IF i = Len(cmd.pairs) THEN "unlock" ELSE "write"]
              /\ creply' = [creply EXCEPT ![c] = IF i = Len(cmd.pairs) THEN Integer(1) ELSE @]
              /\ UNCHANGED permit
    /\ UNCHANGED <<lock, now, rpc, rnext, rexpired, woke, ccmd, csnap, done, drvVars, frameVars, codecVars, handles>>

\* exec returns: the guard is dropped and the reply goes back to the driver.
CmdRelease(c) ==
    /\ cpc[c] = "unlock"
    /\ lock' = "free"
    /\ done' = Append(done, [conn |-> c, cmd |-> ccmd[c], reply |-> creply[c]])
    /\ cpc' = [cpc EXCEPT ![c] = "idle"]
    /\ UNCHANGED <<state, permit, now, rpc, rnext, rexpired, woke, ccmd, clocal, creply, csnap, drvVars, frameVars, codecVars, handles>>

Cmd ==
    \E c \in Conns :
        \/ \E cmd \in ConcCmds : CmdStart(c, cmd)
        \/ CmdAcquire(c)
        \/ CmdRead(c)
        \/ CmdWrite(c)
        \/ CmdRelease(c)

ConcNext == Cmd \/ Reaper \/ Tick

\* Connections running commands against one store, with its reaper.
SpecConc == Init /\ [][ConcNext]_vars

\* ------------------------------------------------------------------ the lock, step by step
\* store.rs, async fn remove_expired_keys, with the steps of the block that holds
\* the guard apart: store.lock(), store.remove_expired_keys(), the end of the block.
ReaperLock ==
    /\ rpc = "top"
    /\ CanAcquire("reaper")
    /\ lock' = "reaper"
    /\ rpc' = "held"
    /\ UNCHANGED <<state, permit, now, rnext, rexpired, woke, connVars, drvVars, frameVars, codecVars, handles>>

ReaperSweepHeld ==
    /\ rpc = "held"
    /\ lock = "reaper"
    /\ rexpired' = expired_keys(state, now)
    /\ state' = remove_expired_keys(state, now)
    /\ rnext' = next_expiration(state')
    /\ rpc' = "swept"
    /\ UNCHANGED <<lock, permit, now, woke, connVars, drvVars, frameVars, codecVars, handles>>

ReaperUnlock_KeepsGuard ==
    /\ rpc = "swept"
    /\ rpc' = "wait"
    /\ UNCHANGED <<state, lock, permit, now, rnext, rexpired, woke, connVars, drvVars, frameVars, codecVars, handles>>

\* The block ends: the guard is dropped, and the task goes on to select! or to
\* waker.notified().await.
ReaperUnlock ==
    /\ rpc = "swept"
    /\ lock' = "free"
    /\ rpc' = "wait"
    /\ UNCHANGED <<state, permit, now, rnext, rexpired, woke, connVars, drvVars, frameVars, codecVars, handles>>

\* The commands of the connections whose locking is followed step by step.
LockCmds == {cmd \in ConcCmds : cmd.op \in {"set", "mget"}}

LockNext ==
    \/ \E c \in Conns :
          \/ \E cmd \in LockCmds : CmdStart(c, cmd)
          \/ CmdAcquire(c)
          \/ CmdRead(c)
          \/ CmdWrite(c)
          \/ CmdRelease(c)
    \/ ReaperLock
    \/ ReaperSweepHeld
    \/ ReaperUnlock
    \/ ReaperWakeTimer
    \/ ReaperWakeNotified
    \/ Tick

\* Two connections and the reaper taking and dropping the guard of one store.
SpecLock == Init /\ [][LockNext]_vars

\* ------------------------------------------------------------------ SET frames parsed and executed
\* "1", "2000"
Digits == [one |-> <<49>>, two_thousand |-> <<50, 48, 48, 48>>]
\* "ZZ"
UnknownOption == <<90, 90>>

\* What may follow SET K V, each item as the arguments it takes on the wire:
\* the TTL options, the behavior options, GET, and the items SET must refuse
\* (an option it does not know, EX without its integer).
TtlItems == {<<SetOption.EX, Digits.one>>, <<SetOption.PX, Digits.two_thousand>>, <<SetOption.KEEPTTL>>}
BehaviorItems == {<<SetOption.NX>>, <<SetOption.XX>>}
GetItems == {<<SetOption.GET>>}
MissingInteger == <<SetOption.EX>>
BadItems == {<<UnknownOption>>, MissingInteger}
OptionItems == TtlItems \cup BehaviorItems \cup GetItems \cup BadItems

\* The values SET writes: "1", "x"
SetValues == {<<49>>, <<120>>}

\* The argument lists after SET K V: no item, one, or two in either order.
OptionLists == {<<>>} \cup {<<i>> : i \in OptionItems} \cup {<<i, j>> : i, j \in OptionItems}

Count(options, among) == Cardinality({i \in DOMAIN options : options[i] \in among})

\* The lists SET has to accept: no refused item, at most one TTL option and at
\* most one behavior option.
ValidOptionLists ==
    {o \in OptionLists : Count(o, BadItems) = 0 /\ Count(o, TtlItems) <= 1 /\ Count(o, BehaviorItems) <= 1}

\* SET a V followed by the items of options, as the Array of Bulk a client sends.
SetFrame(value, options) ==
    Array(<<Bulk(<<83, 69, 84>>), Bulk(<<97>>), Bulk(value)>>
          \o [i \in 1..Len(Concat(options)) |-> Bulk(Concat(options)[i])])

SetFrames == {SetFrame(v, o) : v \in SetValues, o \in OptionLists}
ValidSetFrames == {SetFrame(v, o) : v \in SetValues, o \in ValidOptionLists}

\* A frame is turned into a command by Command::try_from and the command is
\* executed by Command::exec, which holds the store's lock from its first read to
\* its last write; a frame that try_from rejects reaches no exec.
SetRun(f) ==
    /\ lock = "free"
    /\ dframe' = Some(f)
    /\ LET r == try_from(f) IN
       /\ dresult' = r.kind
       /\ IF r.kind = "ok"
          THEN LET e == CmdExec(state, r.cmd, now) IN
               /\ state' = e.state
               /\ permit' = (permit \/ e.notify)
               /\ creply' = [creply EXCEPT !["c1"] = e.reply]
          ELSE UNCHANGED <<state, permit, creply>>
    /\ UNCHANGED <<lock, now, rpc, rnext, rexpired, woke, cpc, ccmd, clocal, csnap, done>>
    /\ UNCHANGED <<net, peer, sentlog, buffer, taken, dpc, wbuf, out, frameVars, codecVars, handles>>

SetNext == (\E f \in ValidSetFrames : SetRun(f)) \/ Tick

\* Well-formed SET commands against one store as the clock advances.
SpecSet == Init /\ [][SetNext]_vars

\* SET a V and SET a V EX 1
ExpiryFrames == {SetFrame(v, o) : v \in SetValues, o \in {<<>>, << <<SetOption.EX, Digits.one>> >>}}

SetReapNext == (\E f \in ExpiryFrames : SetRun(f)) \/ Reaper \/ Tick

\* SET with and without EX against one store, with the store's reaper and the clock.
SpecSetReap == Init /\ [][SetReapNext]_vars

SetParseNext == \E f \in SetFrames : SetRun(f)

\* SET frames of every shape, accepted or refused, against one store.
SpecSetParse == Init /\ [][SetParseNext]_vars

\* ------------------------------------------------------------------ INCR, DECR, INCRBY, DECRBY on 64-bit values
\* An i64 or an integral f64 is kept exactly, as its sign and its decimal digits
\* (most significant first, no leading zero, <<0>> for zero): [neg, mag].
MaxIncr == 2

RECURSIVE Strip(_)
Strip(ds) == IF Len(ds) > 1 /\ ds[1] = 0 THEN Strip(Tail(ds)) ELSE ds

Num(neg, mag) == [neg |-> neg /\ mag # <<0>>, mag |-> mag]

MagLess(a, b) ==
    \/ Len(a) < Len(b)
    \/ Len(a) = Len(b) /\ \E i \in 1..Len(a) : a[i] < b[i] /\ \A j \in 1..(i - 1) : a[j] = b[j]

\* ds with zeros in front, n digits long
Pad(ds, n) == [i \in 1..n |-> IF i <= n - Len(ds) THEN 0 ELSE ds[i - (n - Len(ds))]]

MagAdd(a, b) ==
    LET n == (IF Len(a) > Len(b) THEN Len(a) ELSE Len(b)) + 1
        pa == Pad(a, n)
        pb == Pad(b, n)
        carry[i \in 1..(n + 1)] == IF i = n + 1 THEN 0 ELSE (pa[i] + pb[i] + carry[i + 1]) \div 10
    IN  Strip([i \in 1..n |-> (pa[i] + pb[i] + carry[i + 1]) % 10])

\* a - b for a >= b
MagSub(a, b) ==
    LET n == Len(a)
        pb == Pad(b, n)
        borrow[i \in 1..(n + 1)] ==
            IF i = n + 1 THEN 0 ELSE IF a[i] - pb[i] - borrow[i + 1] < 0 THEN 1 ELSE 0
    IN  Strip([i \in 1..n |-> (a[i] - pb[i] - borrow[i + 1] + 10) % 10])

\* a >> 1 and a & 1
Half(a) ==
    LET n == Len(a)
        rem[i \in 0..n] == IF i = 0 THEN 0 ELSE (rem[i - 1] * 10 + a[i]) % 2
    IN  Strip([i \in 1..n |-> (rem[i - 1] * 10 + a[i]) \div 2])
Odd(a) == a[Len(a)] % 2 = 1

NumAdd(x, y) ==
    IF x.neg = y.neg THEN Num(x.neg, MagAdd(x.mag, y.mag))
    ELSE IF MagLess(x.mag, y.mag) THEN Num(y.neg, MagSub(y.mag, x.mag))
    ELSE Num(x.neg, MagSub(x.mag, y.mag))

\* 2^53, 2^63, 2^64
Two53 == <<9, 0, 0, 7, 1, 9, 9, 2, 5, 4, 7, 4, 0, 9, 9, 2>>
Two63 == <<9, 2, 2, 3, 3, 7, 2, 0, 3, 6, 8, 5, 4, 7, 7, 5, 8, 0, 8>>
Two64 == <<1, 8, 4, 4, 6, 7, 4, 4, 0, 7, 3, 7, 0, 9, 5, 5, 1, 6, 1, 6>>

\* i64::MIN <= x <= i64::MAX
InI64(x) == IF x.neg THEN ~MagLess(Two63, x.mag) ELSE MagLess(x.mag, Two63)

\* The builds of the program: overflow checks on (debug) or off (release).
Builds == {"debug", "release"}

\* x + y on i64 (value += increment, -self.decrement as 0 - decrement): on
\* overflow a build with overflow checks panics, one without wraps modulo 2^64.
add_i64(x, y, build) ==
    LET sum == NumAdd(x, y) IN
    IF InI64(sum) THEN [kind |-> "ok", v |-> sum]
    ELSE IF build = "debug" THEN [kind |-> "panic", v |-> sum]
    ELSE [kind |-> "ok", v |-> NumAdd(sum, Num(~sum.neg, Two64))]

RECURSIVE shift_right(_, _, _, _)
\* mag shifted right until it fits the 53 bits of an f64's significand, with the
\* last bit shifted out (round) and whether any bit before it was set (sticky).
shift_right(mag, round, sticky, e) ==
    IF MagLess(mag, Two53) THEN [q |-> mag, round |-> round, sticky |-> sticky, e |-> e]
    ELSE shift_right(Half(mag), Odd(mag), sticky \/ round, e + 1)

RECURSIVE shift_left(_, _)
shift_left(mag, e) == IF e = 0 THEN mag ELSE shift_left(MagAdd(mag, mag), e - 1)

\* i64::to_f64: the nearest f64, ties to even.
to_f64(x) ==
    LET s == shift_right(x.mag, FALSE, FALSE, 0)
        up == s.round /\ (s.sticky \/ Odd(s.q))
    IN  Num(x.neg, shift_left(IF up THEN MagAdd(s.q, <<1>>) ELSE s.q, s.e))

\* format!("{:.0}", v) of an integral f64, i64's Display: sign and every digit.
to_text(x) == (IF x.neg THEN <<45>> ELSE <<>>) \o [i \in 1..Len(x.mag) |-> 48 + x.mag[i]]

\* str::parse::<i64>(): an optional sign, at least one ASCII digit and nothing
\* else, and the number inside i64.
parse_i64(s) ==
    LET signed == s # <<>> /\ s[1] \in {43, 45}
        body == IF signed THEN Tail(s) ELSE s
        x == Num(signed /\ s[1] = 45, Strip([i \in 1..Len(body) |-> body[i] - 48]))
    IN  IF body = <<>> \/ \E i \in 1..Len(body) : ~IsDigit(body[i]) THEN [ok |-> FALSE, v |-> Num(FALSE, <<0>>)]
        ELSE IF ~InI64(x) THEN [ok |-> FALSE, v |-> Num(FALSE, <<0>>)]
        ELSE [ok |-> TRUE, v |-> x]

\* incr_by::<i64, i64> on values of any size: [state, kind, value]; kind is "ok"
\* for Ok(value), "err" for Err(err), "panic" when the addition panics.
incr_by_i64(S, key, increment, build, t) ==
    LET cur == get(S, key)
        parsed == IF IsSome(cur) THEN parse_i64(Unwrap(cur)) ELSE [ok |-> TRUE, v |-> Num(FALSE, <<0>>)]
        sum == add_i64(parsed.v, increment, build)
        value == to_text(to_f64(sum.v))
        back == parse_i64(value)
    IN  IF ~parsed.ok THEN [state |-> S, kind |-> "err", value |-> parsed.v]
        ELSE IF sum.kind = "panic" THEN [state |-> S, kind |-> "panic", value |-> parsed.v]
        ELSE [state |-> set(S, key, value, t), kind |-> IF back.ok THEN "ok" ELSE "err", value |-> back.v]

\* Incr::exec, Decr::exec, IncrBy::exec, DecrBy::exec: the increment handed to
\* incr_by and the reply made of its result; a panic leaves no reply.
IncrFamilyExec(S, cmd, build, t) ==
    LET increment ==
            CASE cmd.op = "incr" -> [kind |-> "ok", v |-> Num(FALSE, <<1>>)]
              [] cmd.op = "decr" -> [kind |-> "ok", v |-> Num(TRUE, <<1>>)]
              [] cmd.op = "incrby" -> [kind |-> "ok", v |-> cmd.n]
              [] cmd.op = "decrby" -> add_i64(Num(FALSE, <<0>>), Num(~cmd.n.neg, cmd.n.mag), build)
        r == incr_by_i64(S, cmd.key, increment.v, build, t)
    IN  IF increment.kind = "panic" \/ r.kind = "panic"
        THEN [state |-> S, kind |-> "panic", reply |-> None]
        ELSE [state |-> r.state, kind |-> "ok",
              reply |-> IF r.kind = "ok" THEN Simple(OK) ELSE Error(ErrNotInteger)]

\* The values the key holds when the commands arrive: small ones, the ones around
\* 2^53 where f64 stops holding every integer, the ends of i64, and two that are
\* no i64: 2^63 and "x".
IncrTexts ==
    { to_text(Num(FALSE, <<0>>)), to_text(Num(FALSE, <<4, 1>>)), to_text(Num(TRUE, <<1>>)),
      to_text(Num(FALSE, Two53)), to_text(Num(FALSE, MagSub(Two63, <<2>>))),
      to_text(Num(FALSE, MagSub(Two63, <<1>>))), to_text(Num(TRUE, Two63)),
      to_text(Num(FALSE, Two63)), <<120>> }

\* The increments and decrements of INCRBY and DECRBY.
IncrDeltas == {Num(FALSE, <<1, 0>>), Num(TRUE, <<2>>), Num(TRUE, Two63)}

IncrCmds ==
    {[op |-> o, key |-> "a"] : o \in {"incr", "decr"}}
        \cup {[op |-> o, key |-> "a", n |-> d] : o \in {"incrby", "decrby"}, d \in IncrDeltas}

\* SET a text, or SET a text EX 1, on the empty store, before any of the commands.
IncrSeed(text, with_ttl) ==
    /\ lock = "free"
    /\ done = <<>>
    /\ ~exists(state, "a")
    /\ state' = IF with_ttl THEN set_with_ttl(state, "a", text, from_secs(1), now) ELSE set(state, "a", text, now)
    /\ UNCHANGED <<lock, permit, now, rpc, rnext, rexpired, woke, connVars, drvVars, frameVars, codecVars, handles>>

\* One command of the family executes; the task that panics runs no further
\* command, and the guard it drops while unwinding leaves the Mutex poisoned.
IncrRun(cmd, build) ==
    /\ lock = "free"
    /\ dresult # "panic"
    /\ Len(done) < MaxIncr
    /\ LET e == IncrFamilyExec(state, cmd, build, now) IN
       /\ state' = e.state
       /\ dresult' = e.kind
       /\ lock' = IF e.kind = "panic" THEN "poisoned" ELSE lock
       /\ done' = Append(done, [conn |-> "c1", cmd |-> cmd, reply |-> e.reply])
    /\ UNCHANGED <<permit, now, rpc, rnext, rexpired, woke, cpc, ccmd, clocal, creply, csnap>>
    /\ UNCHANGED <<net, peer, sentlog, buffer, taken, dframe, dpc, wbuf, out, frameVars, codecVars, handles>>

IncrNext ==
    \/ \E text \in IncrTexts, with_ttl \in BOOLEAN : IncrSeed(text, with_ttl)
    \/ \E cmd \in IncrCmds, build \in Builds : IncrRun(cmd, build)

\* Commands of the INCR family against one key of one store.
SpecIncr == Init /\ [][IncrNext]_vars

\* ------------------------------------------------------------------ keyspace commands run one at a time
\* getex.rs Ttl::duration: Ex(n) lasts n seconds, Px(n) n milliseconds, every other option one second.
getex_duration(ttl) ==
    CASE ttl.kind = "EX" -> from_secs(ttl.n)
      [] ttl.kind = "PX" -> from_millis(ttl.n)
      [] OTHER -> from_secs(1)

GetexExec_KeepsExpiry(S, cmd, t) ==
    LET value == get(S, cmd.key) IN
    [state |-> S, notify |-> FALSE,
     reply |-> IF IsSome(value) THEN Bulk(Unwrap(value)) ELSE NullBulkString]

\* Getex::exec
GetexExec(S, cmd, t) ==
    LET value == get(S, cmd.key) IN
    IF ~IsSome(value) THEN [state |-> S, notify |-> FALSE, reply |-> NullBulkString]
    ELSE IF ~IsSome(cmd.ttl) THEN [state |-> S, notify |-> FALSE, reply |-> Bulk(Unwrap(value))]
    ELSE IF Unwrap(cmd.ttl).kind = "PERSIST"
    THEN [state |-> remove_ttl(S, cmd.key, t), notify |-> FALSE, reply |-> Bulk(Unwrap(value))]
    ELSE [state |-> set_with_ttl(S, cmd.key, Unwrap(value), getex_duration(Unwrap(cmd.ttl)), t),
          notify |-> set_with_ttl_notifies(S, cmd.key, Unwrap(value), getex_duration(Unwrap(cmd.ttl)), t),
          reply |-> Bulk(Unwrap(value))]

RECURSIVE del_keys(_, _, _)
\* Del::exec, the loop: the store and the count after the keys still to go.
del_keys(S, ks, count) ==
    IF ks = <<>> THEN [state |-> S, count |-> count]
    ELSE del_keys(remove(S, Head(ks)), Tail(ks),
                  IF IsSome(removed(S, Head(ks))) THEN count + 1 ELSE count)

DelExec_CountsListed(S, cmd, t) ==
    [state |-> del_keys(S, cmd.keys, 0).state, notify |-> FALSE, reply |-> Integer(Len(cmd.keys))]

\* Del::exec
DelExec(S, cmd, t) ==
    LET r == del_keys(S, cmd.keys, 0) IN
    [state |-> r.state, notify |-> FALSE, reply |-> Integer(r.count)]

\* Getdel::exec
GetdelExec(S, cmd, t) ==
    LET removed_key == removed(S, cmd.key) IN
    [state |-> remove(S, cmd.key), notify |-> FALSE,
     reply |-> IF IsSome(removed_key) THEN Bulk(Unwrap(removed_key).data) ELSE Null]

DbsizeExec_Live(S, cmd, t) ==
    [state |-> S, notify |-> FALSE,
     reply |-> Integer(Cardinality({k \in DOMAIN S.keys :
                   ~IsSome(S.keys[k].expires_at) \/ Unwrap(S.keys[k].expires_at) > t}))]

\* DBSize::exec
DbsizeExec(S, cmd, t) == [state |-> S, notify |-> FALSE, reply |-> Integer(size(S))]

\* Mset::exec
MsetExec(S, cmd, t) ==
    IF cmd.pairs = <<>>
    THEN [state |-> S, notify |-> FALSE, reply |-> Error(ErrWrongArgs)]
    ELSE [state |-> set_all(S, cmd.pairs, t), notify |-> FALSE, reply |-> Simple(OK)]

\* getrange.rs get_positive_index
get_positive_index(str_len, index) == IF index >= 0 THEN index ELSE str_len - (0 - index)

\* What take(n as usize) and skip(n as usize) count on a string of len characters:
\* a negative i64 is a huge usize, so both run to the end of the string.
as_usize_within(n, len) == IF n < 0 \/ n > len THEN len ELSE n

\* Getrange::exec; String::from_utf8(..).unwrap() panics on a value that is no UTF-8.
GetrangeExec(S, cmd, t) ==
    LET value == get(S, cmd.key) IN
    IF ~IsSome(value) THEN [state |-> S, notify |-> FALSE, reply |-> Bulk(<<>>)]
    ELSE IF ~is_utf8(Unwrap(value)) THEN [state |-> S, notify |-> FALSE, reply |-> None]
    ELSE LET chars == Unwrap(value)
             len == Len(chars)
             start == get_positive_index(len, cmd.start)
             end == get_positive_index(len, cmd.end)
             taken_chars == SubSeq(chars, 1, as_usize_within(end + 1, len))
             subset == SubSeq(taken_chars, as_usize_within(start, Len(taken_chars)) + 1, Len(taken_chars))
         IN  [state |-> S, notify |-> FALSE, reply |-> Bulk(subset)]

\* The bytes of a key of the model.
key_bytes(key) == IF key = "a" THEN <<97>> ELSE <<98>>

GetExec_ChecksExpiry(S, cmd, t) ==
    LET value == get(S, cmd.key)
        ttl == get_ttl(S, cmd.key, t)
    IN  IF IsSome(ttl) /\ Unwrap(ttl) = 0 THEN [state |-> remove(S, cmd.key), notify |-> FALSE, reply |-> Null]
        ELSE [state |-> S, notify |-> FALSE, reply |-> IF IsSome(value) THEN Bulk(Unwrap(value)) ELSE Null]

\* Get::exec
GetExec(S, cmd, t) ==
    LET value == get(S, cmd.key) IN
    [state |-> S, notify |-> FALSE, reply |-> IF IsSome(value) THEN Bulk(Unwrap(value)) ELSE Null]

\* Strlen::exec
StrlenExec(S, cmd, t) ==
    LET value == get(S, cmd.key) IN
    [state |-> S, notify |-> FALSE, reply |-> IF IsSome(value) THEN Integer(Len(Unwrap(value))) ELSE Integer(0)]

\* Type::exec: "string" or "none"
TypeExec(S, cmd, t) ==
    [state |-> S, notify |-> FALSE,
     reply |-> IF IsSome(get(S, cmd.key)) THEN Simple(<<115, 116, 114, 105, 110, 103>>)
               ELSE Simple(<<110, 111, 110, 101>>)]

\* "*"
Star == <<42>>

\* glob_match(pattern, key) for the patterns of the model: "*" and a text without wildcard.
glob_match(pattern, key) == pattern = Star \/ pattern = key_bytes(key)

RECURSIVE keys_list(_)
\* The keys of ks as Bulk frames. The program lists them in the order its HashMap
\* yields them, the model in the order of KeyOrd.
keys_list(ks) ==
    IF ks = {} THEN <<>>
    ELSE LET k == CHOOSE x \in ks : \A y \in ks : KeyOrd(x) <= KeyOrd(y) IN
         <<Bulk(key_bytes(k))>> \o keys_list(ks \ {k})

\* Keys::exec
KeysExec(S, cmd, t) ==
    [state |-> S, notify |-> FALSE,
     reply |-> Array(keys_list({k \in DOMAIN S.keys : glob_match(cmd.pattern, k)}))]

\* Scan::exec: the cursor "0" and every key
ScanExec(S, cmd, t) ==
    [state |-> S, notify |-> FALSE, reply |-> Array(<<Bulk(<<48>>), Array(keys_list(DOMAIN S.keys))>>)]

RECURSIVE from_utf8(_)
\* std::str::from_utf8 for the values LCS is given, which hold ASCII, two-byte
\* forms (a lead byte 0xC2..0xDF and one continuation byte) and bytes that
\* belong to no form: whether the bytes are UTF-8.
from_utf8(bytes) ==
    IF bytes = <<>> THEN TRUE
    ELSE IF bytes[1] < 128 THEN from_utf8(Tail(bytes))
    ELSE IF bytes[1] \in 194..223 /\ Len(bytes) >= 2 /\ bytes[2] \in 128..191
         THEN from_utf8(SubSeq(bytes, 3, Len(bytes)))
    ELSE FALSE

RECURSIVE chars(_)
\* str::chars() of such a text: each char as the bytes that encode it.
chars(text) ==
    IF text = <<>> THEN <<>>
    ELSE IF text[1] < 128 THEN <<<<text[1]>>>> \o chars(Tail(text))
    ELSE <<SubSeq(text, 1, 2)>> \o chars(SubSeq(text, 3, Len(text)))

RECURSIVE collect(_)
\* result.iter().collect::<String>(): the bytes of the chars, one after the other.
collect(cs) == IF cs = <<>> THEN <<>> ELSE Head(cs) \o collect(Tail(cs))

RECURSIVE solutions(_, _, _, _)
\* utils::lcs, solutions[i][j]: the length of the longest common subsequence of
\* the first i chars of a and the first j chars of b.
solutions(a, b, i, j) ==
    IF i = 0 \/ j = 0 THEN 0
    ELSE IF a[i] = b[j] THEN solutions(a, b, i - 1, j - 1) + 1
    ELSE LET up == solutions(a, b, i - 1, j)
             left == solutions(a, b, i, j - 1)
         IN  IF up > left THEN up ELSE left

RECURSIVE reconstitute(_, _, _, _)
\* utils::lcs, the walk back from (i, j), with the result already reversed.
reconstitute(a, b, i, j) ==
    IF i = 0 \/ j = 0 THEN <<>>
    ELSE IF a[i] = b[j] THEN Append(reconstitute(a, b, i - 1, j - 1), a[i])
    ELSE IF solutions(a, b, i - 1, j) > solutions(a, b, i, j - 1) THEN reconstitute(a, b, i - 1, j)
    ELSE reconstitute(a, b, i, j - 1)

lcs_First(a, b) ==
    LET ca == chars(a)
        cb == chars(b)
    IN  IF ca # <<>> /\ cb # <<>> /\ ca[1] = cb[1] THEN ca[1] ELSE <<>>

\* utils::lcs(a, b), on the chars of a and b
lcs(a, b) == collect(reconstitute(chars(a), chars(b), Len(chars(a)), Len(chars(b))))

\* from_utf8(store.get(key).map(..).unwrap_or_default()).unwrap_or_default():
\* the value as a str; "" for an absent key and for a value that is no UTF-8.
lcs_str(S, key) ==
    LET value == get(S, key) IN
    IF IsSome(value) /\ from_utf8(Unwrap(value)) THEN Unwrap(value) ELSE <<>>

\* Lcs::exec; res.len() is the number of bytes of the String.
LcsExec(S, cmd, t) ==
    LET res == lcs(lcs_str(S, cmd.key1), lcs_str(S, cmd.key2)) IN
    [state |-> S, notify |-> FALSE, reply |-> IF cmd.len THEN Integer(Len(res)) ELSE Bulk(res)]

\* Command::exec for the commands on keys: the command as one step under the lock.
\* A reply of None is a panic of the task.
KeyExec(S, cmd, t) ==
    CASE cmd.op = "set" -> SetExec(S, cmd, t)
      [] cmd.op = "ttl" -> [state |-> S, notify |-> FALSE, reply |-> TtlExec(S, cmd.key, t)]
      [] cmd.op = "pttl" -> [state |-> S, notify |-> FALSE, reply |-> PttlExec(S, cmd.key, t)]
      [] cmd.op = "getex" -> GetexExec(S, cmd, t)
      [] cmd.op = "del" -> DelExec(S, cmd, t)
      [] cmd.op = "getdel" -> GetdelExec(S, cmd, t)
      [] cmd.op = "dbsize" -> DbsizeExec(S, cmd, t)
      [] cmd.op = "getrange" -> GetrangeExec(S, cmd, t)
      [] cmd.op = "mset" -> MsetExec(S, cmd, t)
      [] cmd.op = "msetnx" -> MsetnxExec(S, cmd, t)
      [] cmd.op = "mget" -> MgetExec(S, cmd, t)
      [] cmd.op = "get" -> GetExec(S, cmd, t)
      [] cmd.op = "strlen" -> StrlenExec(S, cmd, t)
      [] cmd.op = "exists" -> [state |-> S, notify |-> FALSE, reply |-> ExistsExec(S, cmd.keys)]
      [] cmd.op = "type" -> TypeExec(S, cmd, t)
      [] cmd.op = "keys" -> KeysExec(S, cmd, t)
      [] cmd.op = "scan" -> ScanExec(S, cmd, t)
      [] cmd.op = "lcs" -> LcsExec(S, cmd, t)

\* One command executes on connection c1; a task that panicked runs no further
\* command, and the guard it drops while unwinding leaves the Mutex poisoned.
\* clocal keeps the instant of the run and whether the command before was the same.
KeyRun(cmd) ==
    /\ lock = "free"
    /\ dresult # "panic"
    /\ LET e == KeyExec(state, cmd, now) IN
       /\ state' = e.state
       /\ permit' = (permit \/ e.notify)
       /\ ccmd' = [ccmd EXCEPT !["c1"] = Some(cmd)]
       /\ creply' = [creply EXCEPT !["c1"] = e.reply]
       /\ dresult' = IF e.reply = None THEN "panic" ELSE "ok"
       /\ lock' = IF e.reply = None THEN "poisoned" ELSE lock
    /\ clocal' = [clocal EXCEPT !["c1"] = Some([at |-> now, again |-> ccmd["c1"] = Some(cmd)])]
    /\ UNCHANGED <<now, rpc, rnext, rexpired, woke, cpc, csnap, done>>
    /\ UNCHANGED <<net, peer, sentlog, buffer, taken, dframe, dpc, wbuf, out, frameVars, codecVars, handles>>

\* SET key value, SET key value EX 1
PlainSet(key, value) ==
    [op |-> "set", key |-> key, value |-> value, ttl |-> None, behavior |-> "none", get |-> FALSE]
SetEx(key, value, n) ==
    [op |-> "set", key |-> key, value |-> value, ttl |-> Some([kind |-> "EX", n |-> n]),
     behavior |-> "none", get |-> FALSE]

\* TTL and PTTL on a key with an expiry, a key without and an absent key, while the
\* clock runs and the reaper sweeps.
TtlCmds ==
    {SetEx("a", <<49>>, 1), PlainSet("b", <<49>>)}
        \cup {[op |-> o, key |-> k] : o \in {"ttl", "pttl"}, k \in Keys}
TtlNext == (\E cmd \in TtlCmds : KeyRun(cmd)) \/ Reaper \/ Tick
SpecTtl == Init /\ [][TtlNext]_vars

\* GETEX with each option on a key with an expiry, a key without and an absent key.
GetexOptions ==
    {None, Some([kind |-> "PERSIST", n |-> 0]), Some([kind |-> "EX", n |-> 1]),
     Some([kind |-> "PX", n |-> 2000])}
GetexCmds ==
    {SetEx("a", <<49>>, 1), PlainSet("a", <<120>>)}
        \cup {[op |-> "getex", key |-> k, ttl |-> o] : k \in Keys, o \in GetexOptions}
GetexNext == (\E cmd \in GetexCmds : KeyRun(cmd)) \/ Reaper \/ Tick
SpecGetex == Init /\ [][GetexNext]_vars

\* SET with and without expiry, DEL of one key, of one key twice and of two keys,
\* GETDEL and DBSIZE, while the clock runs and the reaper sweeps.
DelLists == {<<"a">>, <<"b">>, <<"a", "a">>, <<"a", "b">>}
KeysCmds ==
    {PlainSet("a", <<49>>), PlainSet("a", <<120>>), SetEx("a", <<49>>, 1), PlainSet("b", <<49>>),
     [op |-> "getdel", key |-> "a"], [op |-> "dbsize"]}
        \cup {[op |-> "del", keys |-> ks] : ks \in DelLists}
KeysNext == (\E cmd \in KeysCmds : KeyRun(cmd)) \/ Reaper \/ Tick
SpecKeys == Init /\ [][KeysNext]_vars

\* GETRANGE on "xyz", on the empty string, on a value that is no UTF-8 and on an
\* absent key, with offsets inside and outside the value from both ends.
RangeValues == {<<120, 121, 122>>, <<>>, <<255>>}
RangeOffsets == {-5, -3, -1, 0, 1, 2, 4}
RangeCmds ==
    {PlainSet("a", v) : v \in RangeValues}
        \cup {[op |-> "getrange", key |-> "a", start |-> s, end |-> e] : s, e \in RangeOffsets}
        \cup {[op |-> "getrange", key |-> "b", start |-> 0, end |-> 0]}
RangeNext == \E cmd \in RangeCmds : KeyRun(cmd)
SpecRange == Init /\ [][RangeNext]_vars

\* ------------------------------------------------------------------ arguments parsed, then executed
\* setrange.rs MAX_OFFSET
MAX_OFFSET == 536870911
MaxData == 3

\* An integer as sign and decimal digits.
IntNum(n) ==
    LET ds == nat_digits(IF n < 0 THEN 0 - n ELSE n) IN Num(n < 0, [i \in 1..Len(ds) |-> ds[i] - 48])
\* `offset as usize` where usize has 64 bits: the i64 modulo 2^64
as_usize(n) == IF n >= 0 THEN IntNum(n) ELSE NumAdd(Num(FALSE, Two64), IntNum(n))

\* Setrange::try_from
SetrangeTryFrom(parts) ==
    LET key == next_string(parts)
        offset == next_integer(key.rest)
        value == next_bytes(offset.rest)
    IN  IF key.kind # "ok" THEN Rejected(key.kind)
        ELSE IF offset.kind # "ok" THEN Rejected(offset.kind)
        ELSE IF value.kind # "ok" THEN Rejected(value.kind)
        ELSE IF ~MagLess(as_usize(offset.v).mag, IntNum(MAX_OFFSET).mag)
        THEN Rejected("InvalidCommandArgument")
        ELSE Parsed([op |-> "setrange", key |-> Str(key.v), offset |-> offset.v, value |-> value.v])

\* Setrange::exec
SetrangeExec(S, cmd, t) ==
    LET current_value == IF IsSome(get(S, cmd.key)) THEN Unwrap(get(S, cmd.key)) ELSE <<>>
        offset == cmd.offset
        new_len == offset + Len(cmd.value)
        size_ == IF new_len > Len(current_value) THEN new_len ELSE Len(current_value)
        new_value == [i \in 1..size_ |->
                         IF i > offset /\ i <= new_len THEN cmd.value[i - offset]
                         ELSE IF i <= Len(current_value) THEN current_value[i]
                         ELSE 32]
    IN  [state |-> set(S, cmd.key, new_value, t), notify |-> FALSE, reply |-> Integer(new_len)]

RECURSIVE mset_pairs(_, _)
\* Mset::try_from, Msetnx::try_from: pairs up to the end of the parts; a key
\* without a value ends the loop like the end of the parts does.
mset_pairs(parts, pairs) ==
    LET key == next_string(parts)
        value == next_bytes(key.rest)
    IN  IF key.kind = "ok" /\ value.kind = "ok"
        THEN mset_pairs(value.rest, Append(pairs, <<Str(key.v), value.v>>))
        ELSE IF key.kind = "EndOfStream" \/ value.kind = "EndOfStream" THEN [kind |-> "ok", pairs |-> pairs]
        ELSE IF key.kind # "ok" THEN [kind |-> key.kind, pairs |-> <<>>]
        ELSE [kind |-> value.kind, pairs |-> <<>>]

RECURSIVE mget_keys(_, _)
\* Mget::try_from: keys up to the end of the parts
mget_keys(parts, keys) ==
    LET key == next_string(parts) IN
    IF key.kind = "ok" THEN mget_keys(key.rest, Append(keys, Str(key.v)))
    ELSE IF key.kind = "EndOfStream" THEN Parsed([op |-> "mget", keys |-> keys])
    ELSE Rejected(key.kind)

MsetTryFrom_NeedsPair(op, parts) ==
    LET r == mset_pairs(parts, <<>>) IN
    IF r.kind = "ok" /\ r.pairs # <<>> THEN Parsed([op |-> op, pairs |-> r.pairs])
    ELSE Rejected(IF r.kind = "ok" THEN "EndOfStream" ELSE r.kind)

MsetTryFrom(op, parts) ==
    LET r == mset_pairs(parts, <<>>) IN
    IF r.kind = "ok" THEN Parsed([op |-> op, pairs |-> r.pairs]) ELSE Rejected(r.kind)

\* Del::try_from: the loop of Exists::try_from, keys up to the end of the parts, at least one
DelTryFrom(parts) ==
    LET r == exists_keys(parts, <<>>) IN
    IF r.kind = "ok" THEN Parsed([op |-> "del", keys |-> r.cmd.keys]) ELSE r

\* Keys::try_from: one pattern
KeysTryFrom(parts) ==
    LET pattern == next_string(parts) IN
    IF pattern.kind # "ok" THEN Rejected(pattern.kind) ELSE Parsed([op |-> "keys", pattern |-> pattern.v])

\* "LEN"
OptionLen == <<76, 69, 78>>

\* Lcs::try_from: two keys, and len when a third part is there and is "LEN"
LcsTryFrom(parts) ==
    LET key1 == next_string(parts)
        key2 == next_string(key1.rest)
        len == next_string(key2.rest)
    IN  IF key1.kind # "ok" THEN Rejected(key1.kind)
        ELSE IF key2.kind # "ok" THEN Rejected(key2.kind)
        ELSE IF len.kind \notin {"ok", "EndOfStream"} THEN Rejected(len.kind)
        ELSE Parsed([op |-> "lcs", key1 |-> Str(key1.v), key2 |-> Str(key2.v),
                     len |-> (len.kind = "ok" /\ len.v = OptionLen)])

\* The parser of the command called name, on the parts that follow the name.
ArgsTryFrom(name, parts) ==
    CASE name = "setrange" -> SetrangeTryFrom(parts)
      [] name \in {"mset", "msetnx"} -> MsetTryFrom(name, parts)
      [] name = "mget" -> mget_keys(parts, <<>>)
      [] name = "del" -> DelTryFrom(parts)
      [] name = "exists" -> exists_keys(parts, <<>>)
      [] name = "keys" -> KeysTryFrom(parts)
      [] name = "lcs" -> LcsTryFrom(parts)
      [] name = "set" -> SetTryFrom(parts)

\* Command::try_from has read the name; the command's parser converts the parts.
ArgsParse(name, parts) ==
    /\ lock = "free"
    /\ LET r == ArgsTryFrom(name, parts) IN
       /\ dresult' = r.kind
       /\ clocal' = [clocal EXCEPT !["c1"] = IF r.kind = "ok" THEN Some(r.cmd) ELSE None]
    /\ ccmd' = [ccmd EXCEPT !["c1"] = Some([name |-> name, parts |-> parts])]
    /\ creply' = [creply EXCEPT !["c1"] = None]
    /\ UNCHANGED <<state, lock, permit, now, rpc, rnext, rexpired, woke, cpc, csnap, done>>
    /\ UNCHANGED <<net, peer, sentlog, buffer, taken, dframe, dpc, wbuf, out, frameVars, codecVars, handles>>

\* The parsed command executes. SETRANGE builds offset + len bytes: the model runs
\* it for values of up to MaxData bytes.
ArgsExec ==
    /\ lock = "free"
    /\ IsSome(clocal["c1"])
    /\ LET cmd == Unwrap(clocal["c1"])
           e == IF cmd.op = "setrange" THEN SetrangeExec(state, cmd, now) ELSE KeyExec(state, cmd, now)
       IN  /\ cmd.op = "setrange" => cmd.offset + Len(cmd.value) <= MaxData
           /\ state' = e.state
           /\ creply' = [creply EXCEPT !["c1"] = e.reply]
    /\ clocal' = [clocal EXCEPT !["c1"] = None]
    /\ UNCHANGED <<lock, permit, now, rpc, rnext, rexpired, woke, cpc, ccmd, csnap, done>>
    /\ UNCHANGED <<net, peer, sentlog, buffer, taken, dframe, dpc, wbuf, out, dresult, frameVars, codecVars, handles>>

\* SETRANGE a offset value, with offsets around zero and around MAX_OFFSET.
SetrangeOffsets == {-1, 0, 1, MAX_OFFSET - 1, MAX_OFFSET, MAX_OFFSET + 1}
SetrangeArgs ==
    {<<Bulk(<<97>>), Bulk(format_int(o)), Bulk(v)>> : o \in SetrangeOffsets, v \in {<<120>>, <<121, 122>>}}
SetrangeNext == (\E parts \in SetrangeArgs : ArgsParse("setrange", parts)) \/ ArgsExec
SpecSetrange == Init /\ [][SetrangeNext]_vars

\* MSET, MSETNX and MGET with no argument, one, two and three.
MultiArgs ==
    {<<>>, <<Bulk(<<97>>)>>, <<Bulk(<<97>>), Bulk(<<49>>)>>, <<Bulk(<<98>>), Bulk(<<120>>)>>,
     <<Bulk(<<97>>), Bulk(<<120>>), Bulk(<<98>>)>>}
MultiNext == (\E name \in {"mset", "msetnx", "mget"}, parts \in MultiArgs : ArgsParse(name, parts)) \/ ArgsExec
SpecMulti == Init /\ [][MultiNext]_vars

\* ------------------------------------------------------------------ claims: store and reaper
KeysOf(S) == DOMAIN S.keys

\* C1: whenever the store lock is free, (t, k) is in ttls exactly when k is in keys
\* with expires_at = t, and no key has two ttls entries.
C1_TtlsMatchKeys ==
    lock = "free" =>
        /\ \A e \in state.ttls :
              e[2] \in KeysOf(state) /\ state.keys[e[2]].expires_at = Some(e[1])
        /\ \A k \in KeysOf(state) :
              IsSome(state.keys[k].expires_at) => <<Unwrap(state.keys[k].expires_at), k>> \in state.ttls
        /\ \A e, f \in state.ttls : e[2] = f[2] => e = f

\* A sweep has removed an expired key while another entry is still waiting in ttls
\* next to a key without TTL.
C1_Witness ==
    /\ lock = "free"
    /\ rpc = "wait"
    /\ rexpired # {}
    /\ state.ttls # {}
    /\ \E k \in KeysOf(state) : state.keys[k].expires_at = None

Expired(k) ==
    /\ k \in KeysOf(state)
    /\ IsSome(state.keys[k].expires_at)
    /\ Unwrap(state.keys[k].expires_at) <= now

Gone(k) == ExistsExec(state, <<k>>) = Integer(0) /\ TtlExec(state, k, now) = Integer(-2)

\* C2: a key whose expiry instant has been reached is eventually removed (EXISTS
\* replies 0 and TTL replies -2), unless it is rewritten with no or a later expiry.
C2_ExpiredKeyIsReaped ==
    \A k \in Keys : Expired(k) ~> (Gone(k) \/ (k \in KeysOf(state) /\ ~Expired(k)))

\* The reaper woke on its timer and its sweep removed a key, which is gone.
C2_Witness ==
    /\ rpc = "wait"
    /\ woke = "timer"
    /\ \E e \in rexpired : Gone(e[2]) /\ e[1] <= now

\* C3: a sweep removes only keys whose expires_at is at or before now; the keys it
\* leaves are unchanged, those without TTL and those expiring later among them.
C3_SweepRemovesOnlyExpired ==
    [][(rpc = "top" /\ rpc' = "wait") =>
          \A k \in KeysOf(state) :
              IF k \in KeysOf(state')
              THEN state'.keys[k] = state.keys[k]
              ELSE /\ IsSome(state.keys[k].expires_at)
                   /\ Unwrap(state.keys[k].expires_at) <= now]_vars

\* A stale wake-up: the timer fired, the sweep found nothing to remove, and a key
\* created before that sweep lives on without TTL.
C3_Witness ==
    /\ rpc = "wait"
    /\ woke = "timer"
    /\ rexpired = {}
    /\ state.ttls = {}
    /\ \E k \in KeysOf(state) : state.keys[k].expires_at = None /\ state.keys[k].created_at < now

\* C4: while the reaper waits, an entry of ttls whose instant has come always lets
\* it wake: a notification is stored or its own timer has run out.
C4_NotificationNotLost ==
    (rpc = "wait" /\ state.ttls # {} /\ First(state.ttls)[1] <= now) =>
        (permit \/ (IsSome(rnext) /\ Unwrap(rnext) <= now))

\* An entry earlier than the one the reaper sleeps for has come due, and the
\* notification for it is stored.
C4_Witness ==
    /\ rpc = "wait"
    /\ permit
    /\ state.ttls # {}
    /\ First(state.ttls)[1] <= now
    /\ (rnext = None \/ Unwrap(rnext) > now)

\* ------------------------------------------------------------------ claims: concurrent commands
\* The keys a command writes.
Touches(cmd) ==
    CASE cmd.op \in {"incr", "append", "set"} -> {cmd.key}
      [] cmd.op = "msetnx" -> {cmd.pairs[i][1] : i \in 1..Len(cmd.pairs)}
      [] cmd.op = "mget" -> {}

DoneOn(key) == {i \in 1..Len(done) : key \in Touches(done[i].cmd)}
DoneOp(key, op) == {i \in DoneOn(key) : done[i].cmd.op = op}
IsSetNx(cmd) == cmd.op = "set" /\ cmd.behavior = "NX"
Ones(n) == [i \in 1..n |-> 49]
\* What a client can read of a State: each key's bytes and whether it expires.
Content(S) == [k \in KeysOf(S) |-> [data |-> S.keys[k].data, expires |-> IsSome(S.keys[k].expires_at)]]

\* C5: a command makes all its reads and writes of the store inside one hold of
\* the lock, so concurrent commands are linearized: when a command returns, the
\* store and its reply are what the whole command makes of the State it found
\* when it took the lock (each key's bytes and whether it expires; the
\* instants stamped on the entries are those of the writes); n concurrent INCRs of a key leave it at n, concurrent
\* APPENDs lose no bytes, and of the SET NX commands racing for an absent key
\* exactly one writes.
C5_Linearized ==
    /\ \A c \in Conns :
        cpc[c] = "unlock" =>
            LET r == CmdExec(csnap[c], ccmd[c], now) IN
            /\ Content(state) = Content(r.state)
            /\ creply[c] = r.reply
    /\ (InFlight = {} /\ DoneOn("a") # {} /\ DoneOn("a") = DoneOp("a", "incr")) =>
            get(state, "a") = Some(format_int(Cardinality(DoneOn("a"))))
    /\ (InFlight = {} /\ DoneOn("a") # {} /\ DoneOn("a") = DoneOp("a", "append")) =>
            get(state, "a") = Some(Ones(Cardinality(DoneOn("a"))))
    /\ Cardinality({i \in DoneOn("a") : IsSetNx(done[i].cmd)
                                        /\ done[i].reply.tag = "Simple"}) <= 1
    /\ (DoneOn("a") # {} /\ \A i \in DoneOn("a") : IsSetNx(done[i].cmd)) =>
            /\ done[CHOOSE i \in DoneOn("a") : \A j \in DoneOn("a") : i <= j].reply = Simple(OK)
            /\ \A i \in DoneOn("a") : done[i].reply.tag \in {"Simple", "NullBulkString"}

\* Two connections each ran INCR on key a, and the key holds "2".
C5_Witness ==
    /\ InFlight = {}
    /\ Len(done) = 2
    /\ done[1].cmd.op = "incr" /\ done[2].cmd.op = "incr"
    /\ done[1].conn # done[2].conn
    /\ get(state, "a") = Some(<<50>>)

IsMsetnx(c) == cpc[c] # "idle" /\ ccmd[c].op = "msetnx"
MidWrite(c) == IsMsetnx(c) /\ cpc[c] = "write" /\ Unwrap(clocal[c]) > 1

\* C6: MSETNX is all-or-nothing under every interleaving with the other
\* connections and the reaper: if any of its keys exists when it takes the
\* lock it writes nothing and replies 0, otherwise it writes every pair and
\* replies 1; while only part of the pairs is written the writer holds the
\* lock and no other command is inside its own reads or writes.
C6_MsetnxAllOrNothing ==
    \A c \in Conns :
        /\ (IsMsetnx(c) /\ cpc[c] = "unlock") =>
            LET pairs == ccmd[c].pairs
                found == \E i \in 1..Len(pairs) : exists(csnap[c], pairs[i][1])
            IN  IF found
                THEN creply[c] = Integer(0) /\ state = csnap[c]
                ELSE /\ creply[c] = Integer(1)
                     /\ \A i \in 1..Len(pairs) :
                            /\ get(state, pairs[i][1]) = Some(pairs[i][2])
                            /\ ~IsSome(state.keys[pairs[i][1]].expires_at)
                     /\ \A k \in KeysOf(csnap[c]) : k \in KeysOf(state)
                     /\ KeysOf(state) = KeysOf(csnap[c]) \cup Touches(ccmd[c])
                     /\ state.ttls = csnap[c].ttls
        /\ MidWrite(c) =>
            /\ lock = c
            /\ \A d \in Conns \ {c} : cpc[d] \in {"idle", "lock"}

\* An MSETNX is refused because a key exists, after an MSETNX of another
\* connection wrote both pairs, while that connection waits for the lock again.
C6_Witness ==
    \E c \in Conns :
        /\ IsMsetnx(c) /\ cpc[c] = "unlock" /\ creply[c] = Integer(0)
        /\ \E i \in 1..Len(done) :
            /\ done[i].cmd.op = "msetnx"
            /\ done[i].conn # c
            /\ done[i].reply = Integer(1)

\* ------------------------------------------------------------------ claims: the frame codec
\* C9: for every Frame f built from Simple, Error, Integer, Bulk, Null and
\* Array (nested or empty), with Simple and Error texts free of CR and LF and
\* Bulk holding arbitrary bytes, parsing f.serialize() returns f and leaves
\* the cursor right after the last serialized byte.
C9_RoundTrip ==
    (fpc = "parsed" /\ IsSome(fframe)) =>
        /\ Unwrap(fres).kind = "ok"
        /\ FrameEq(Unwrap(fres).frame, Unwrap(fframe))
        /\ Unwrap(fres).pos = Len(fin) + 1

\* The raw input is "$<n>\r\n" followed by body.
IsRawBulk(n, body) == ~IsSome(fframe) /\ fin = RawBulkHeader(n) \o body

\* C10: parsing "$<N>\r\n" followed by more bytes, N >= 0: with fewer than
\* N + 2 bytes after the length line the outcome is Incomplete; otherwise the
\* N bytes after the length line, whatever they are, must be followed by CRLF,
\* and the result is the Bulk of exactly those N bytes with the cursor after
\* that CRLF.
C10_BulkTakesDeclaredLength ==
    fpc = "parsed" =>
        \A n \in 0..MaxBulk : \A body \in SeqsUpTo(BulkBytes, MaxBulk + 2) :
            IsRawBulk(n, body) =>
                LET r == Unwrap(fres) IN
                IF Len(body) < n + 2 THEN r.kind = "incomplete"
                ELSE IF SubSeq(body, n + 1, n + 2) = CRLF
                THEN /\ r.kind = "ok"
                     /\ FrameEq(r.frame, Bulk(SubSeq(body, 1, n)))
                     /\ r.pos = Len(RawBulkHeader(n)) + n + 3
                ELSE r.kind = "error"

\* ------------------------------------------------------------------ claims: the connection driver
EmptyState == [keys |-> EmptyMap, ttls |-> {}]

RECURSIVE Replies(_, _)
\* The replies to frames, each handled in turn from the State S, up to the
\* first frame that ends the connection.
Replies(frames, S) ==
    IF frames = <<>> THEN <<>>
    ELSE LET h == Handle(Head(frames), S, 0) IN
         IF h.kind # "reply" THEN <<>>
         ELSE <<h.bytes>> \o Replies(Tail(frames), h.state)

\* The frames whose handling has started.
Answered == IF dpc = "convert" THEN taken - 1 ELSE taken

\* C7: on one connection the i-th reply written is the reply to the i-th frame
\* received, also when several frames were buffered before the first reply is
\* written; a reply is written in full before the next frame is processed.
C7_RepliesInOrder ==
    /\ out \o wbuf = Concat(Replies(SubSeq(sentlog, 1, Answered), EmptyState))
    /\ dpc \in {"read", "convert"} => wbuf = <<>>
    /\ taken <= Len(sentlog)

\* SET a x and GET a were both buffered before a byte of the first reply was
\* written, and the first reply is written while the second is being sent.
C7_Witness ==
    /\ Len(sentlog) = 2
    /\ try_from(sentlog[1]).kind = "ok" /\ try_from(sentlog[1]).cmd.op = "set"
    /\ buffer = <<sentlog[2]>>
    /\ try_from(sentlog[2]).kind = "ok" /\ try_from(sentlog[2]).cmd.op = "get"
    /\ dpc = "write"
    /\ out # <<>>
    /\ wbuf # <<>>

\* C8: when a well-formed frame is not a valid command (UnknownCommand,
\* InvalidFrame, InvalidCommandArgument, EndOfStream) the driver writes an
\* Error reply frame and keeps the connection open: handle_connection does
\* not end with that error, and the bytes written hold one Error frame for
\* every such frame handled.
C8_ParseErrorAnswered ==
    LET bad == {i \in 1..Answered : try_from(sentlog[i]).kind # "ok"}
        written == out \o wbuf
    IN  bad # {} =>
            /\ dresult # "err"
            /\ Cardinality({j \in 1..Len(written) : written[j] = 45}) = Cardinality(bad)

\* ------------------------------------------------------------------ claims: the decoder
\* The decoder expects the frame after those it has yielded.
NextFrameBytes == IF Len(items) < Len(wframes) THEN serialize(wframes[Len(items) + 1]) ELSE <<>>

\* C11: for a byte stream that is a concatenation of serialized frames, split
\* into chunks in any way, the decoder answers "need more bytes" only while no
\* whole frame is buffered and consumes nothing then; it yields exactly the
\* original frames in order, and each decode removes exactly the bytes of the
\* frame it yields (the size limit being out of reach).
C11_DecoderYieldsFrames ==
    limit = DefaultMaxFrameSize =>
        /\ dstatus = "open"
        /\ Len(items) <= Len(wframes)
        /\ \A i \in 1..Len(items) : i <= Len(wframes) /\ FrameEq(items[i], wframes[i])
        /\ StreamOf(items) \o rbuf \o wire = StreamOf(wframes)
        /\ dlast = "none" => (rbuf = <<>> \/ Len(rbuf) < Len(NextFrameBytes))

\* C12: Frame::parse answers with an error value, never with a frame and never
\* by crashing, when the leading byte names no type, when an integer or a
\* length field is not a decimal number, and when a Bulk or Array length is
\* negative and not -1.
C12_MalformedIsError ==
    (fpc = "parsed" /\ fin \in MalformedInputs) => Unwrap(fres).kind = "error"

Refused(cmd, S) ==
    \/ cmd.behavior = "NX" /\ exists(S, cmd.key)
    \/ cmd.behavior = "XX" /\ ~exists(S, cmd.key)

\* C14: SET with NX on an existing key, or with XX on an absent key, replies the
\* null bulk string (set.rs: Frame::NullBulkString) and leaves the store as it
\* was; every other SET leaves the key holding the value. With GET the reply is
\* the value held before (the null bulk string if there was none) instead of
\* OK, and a refused SET with GET writes nothing either.
C14_SetGuards ==
    [][now' = now =>
        \A f \in ValidSetFrames : dframe' = Some(f) =>
            LET cmd == try_from(f).cmd
                old == get(state, cmd.key)
                reply == creply'["c1"]
            IN  IF Refused(cmd, state)
                THEN reply = NullBulkString /\ state' = state
                ELSE /\ get(state', cmd.key) = Some(cmd.value)
                     /\ reply = IF ~cmd.get THEN Simple(OK)
                                ELSE IF IsSome(old) THEN Bulk(Unwrap(old))
                                ELSE NullBulkString]_vars

\* SET a V NX GET was refused on a key holding another value, which it still holds.
C14_Witness ==
    \E f \in ValidSetFrames :
        /\ dframe = Some(f)
        /\ try_from(f).cmd.behavior = "NX" /\ try_from(f).cmd.get
        /\ creply["c1"] = NullBulkString
        /\ exists(state, "a")
        /\ get(state, "a") # Some(try_from(f).cmd.value)

\* The TTL option of a SET command, "none" without one.
TtlOption(cmd) == IF IsSome(cmd.ttl) THEN Unwrap(cmd.ttl).kind ELSE "none"
\* The entries of ttls that belong to key.
EntriesOf(S, key) == {e \in S.ttls : e[2] = key}
HasTtl(S, key) == exists(S, key) /\ IsSome(S.keys[key].expires_at)

\* C15: SET K V KEEPTTL on a key that has a TTL replaces the data and keeps the
\* key's expires_at and its ttls entry as they were; on a key without TTL, or
\* an absent key, the key ends up with no TTL and no ttls entry.
C15_KeepTtlKeeps ==
    [][now' = now =>
        \A f \in ValidSetFrames : dframe' = Some(f) =>
            LET cmd == try_from(f).cmd IN
            (TtlOption(cmd) = "KEEPTTL" /\ ~Refused(cmd, state)) =>
                /\ get(state', cmd.key) = Some(cmd.value)
                /\ IF HasTtl(state, cmd.key)
                   THEN /\ state'.keys[cmd.key].expires_at = state.keys[cmd.key].expires_at
                        /\ EntriesOf(state', cmd.key) = EntriesOf(state, cmd.key)
                   ELSE /\ ~HasTtl(state', cmd.key)
                        /\ EntriesOf(state', cmd.key) = {}]_vars

\* C16: SET K V EX N stores K with expiry now + N seconds and SET K V PX N with
\* expiry now + N milliseconds (from_millis(N) ticks of the clock),
\* and the only ttls entry of K afterwards is the new one.
C16_RelativeExpiry ==
    [][now' = now =>
        \A f \in ValidSetFrames : dframe' = Some(f) =>
            LET cmd == try_from(f).cmd IN
            (TtlOption(cmd) \in {"EX", "PX"} /\ ~Refused(cmd, state)) =>
                LET n == Unwrap(cmd.ttl).n
                    expiry == now + (IF TtlOption(cmd) = "EX" THEN from_secs(n) ELSE from_millis(n))
                IN  /\ state'.keys[cmd.key].expires_at = Some(expiry)
                    /\ EntriesOf(state', cmd.key) = {<<expiry, cmd.key>>}]_vars

\* C17: after SET k v without a TTL option the key has no expires_at and no ttls
\* entry, also when it carried a TTL before: until the next command TTL k replies
\* -1 and the key stays in the store whatever the reaper and the clock do, the
\* old expiry instant included.
C17_SetClearsTtl ==
    \A v \in SetValues : dframe = Some(SetFrame(v, <<>>)) =>
        /\ exists(state, "a")
        /\ state.keys["a"].expires_at = None
        /\ EntriesOf(state, "a") = {}
        /\ TtlExec(state, "a", now) = Integer(-1)

\* The key was created at time 0 and never removed, the reaper's timer ran out for
\* the TTL the key once had, and the key holds what the last SET, one without TTL
\* option, wrote.
C17_Witness ==
    /\ dframe = Some(SetFrame(<<120>>, <<>>))
    /\ woke = "timer"
    /\ rpc = "wait"
    /\ now >= 1
    /\ exists(state, "a")
    /\ state.keys["a"].created_at = 0
    /\ get(state, "a") = Some(<<120>>)

\* The names of the options as the parsed command keeps them.
OptionName(option) ==
    CASE option = SetOption.EX -> "EX" [] option = SetOption.PX -> "PX"
      [] option = SetOption.KEEPTTL -> "KEEPTTL"
      [] option = SetOption.NX -> "NX" [] option = SetOption.XX -> "XX"

\* The item of among that options holds, and its option's name, "none" if it holds none.
Item(options, among) == options[CHOOSE i \in DOMAIN options : options[i] \in among]
Chosen(options, among) ==
    IF Count(options, among) = 0 THEN "none" ELSE OptionName(Item(options, among)[1])

\* What Set::try_from has to make of SET a value followed by options, GET being
\* allowed any number of times; n is the integer given with EX or PX.
Accepted(value, options) ==
    [key |-> "a", value |-> value,
     ttl |-> Chosen(options, TtlItems),
     n |-> IF Chosen(options, TtlItems) \in {"EX", "PX"}
           THEN parse_int(Item(options, TtlItems)[2]).v ELSE 0,
     behavior |-> Chosen(options, BehaviorItems),
     get |-> Count(options, GetItems) > 0]

\* The fields of a parsed SET command.
Fields(cmd) ==
    [key |-> cmd.key, value |-> cmd.value, ttl |-> TtlOption(cmd),
     n |-> IF IsSome(cmd.ttl) THEN Unwrap(cmd.ttl).n ELSE 0,
     behavior |-> cmd.behavior, get |-> cmd.get]

\* The value and the options each frame of SetFrames was built from.
Sent == [f \in SetFrames |-> CHOOSE vo \in SetValues \X OptionLists : SetFrame(vo[1], vo[2]) = f]

\* C18 as amended: SET K V followed by options in any order is accepted with at
\* most one TTL option and at most one of NX/XX, GET any number of times; an
\* unknown option, a second TTL option and a second NX/XX fail with
\* InvalidCommandArgument; EX without its integer fails; a frame that fails
\* changes nothing in the store and gets no reply from exec.
C18_SetOptions ==
    [][\A vo \in {Sent[Unwrap(dframe')]} :
        LET v == vo[1]
            o == vo[2]
        IN  /\ o \in ValidOptionLists =>
                  dresult' = "ok" /\ Fields(try_from(SetFrame(v, o)).cmd) = Accepted(v, o)
            /\ (o \notin ValidOptionLists /\ Count(o, {MissingInteger}) = 0) =>
                  dresult' = "InvalidCommandArgument"
            /\ Count(o, {MissingInteger}) > 0 => dresult' # "ok"
            /\ dresult' # "ok" => (state' = state /\ creply' = creply /\ permit' = permit)]_vars

\* C18 as stated: as above, but a repeated GET fails with InvalidCommandArgument too.
C18_NoOptionTwice ==
    [][\A vo \in {Sent[Unwrap(dframe')]} :
        LET o == vo[2]
        IN  /\ (o \in ValidOptionLists /\ Count(o, GetItems) <= 1) => dresult' = "ok"
            /\ ((o \notin ValidOptionLists \/ Count(o, GetItems) > 1) /\ Count(o, {MissingInteger}) = 0) =>
                  dresult' = "InvalidCommandArgument"
            /\ Count(o, {MissingInteger}) > 0 => dresult' # "ok"
            /\ dresult' # "ok" => (state' = state /\ creply' = creply /\ permit' = permit)]_vars

\* SET a x NX XX was refused with InvalidCommandArgument and the key still holds "1".
C18_Witness ==
    /\ dframe = Some(SetFrame(<<120>>, << <<SetOption.NX>>, <<SetOption.XX>> >>))
    /\ dresult = "InvalidCommandArgument"
    /\ get(state, "a") = Some(<<49>>)

\* ------------------------------------------------------------------ claims: INCR family
\* The integer a decimal text denotes, whatever its size, and the integer the
\* key holds in S, an absent key counting as 0.
number(text) ==
    LET signed == text[1] \in {43, 45}
        body == IF signed THEN Tail(text) ELSE text
    IN  Num(text[1] = 45, Strip([i \in 1..Len(body) |-> body[i] - 48]))
Held(S) == IF exists(S, "a") THEN number(Unwrap(get(S, "a"))) ELSE Num(FALSE, <<0>>)

\* What the command asks to add: 1, -1, the increment, minus the decrement.
Delta(cmd) ==
    CASE cmd.op = "incr" -> Num(FALSE, <<1>>)
      [] cmd.op = "decr" -> Num(TRUE, <<1>>)
      [] cmd.op = "incrby" -> cmd.n
      [] cmd.op = "decrby" -> Num(~cmd.n.neg, cmd.n.mag)

\* C19: INCR on a key holding "9223372036854775807", and any INCR, INCRBY, DECR
\* or DECRBY whose result leaves the signed 64-bit range, replies with an Error
\* frame and leaves the stored value unchanged.
C19_OverflowIsError ==
    [][done' # done =>
        LET ran == done'[Len(done')] IN
        ~InI64(NumAdd(Held(state), Delta(ran.cmd))) =>
            /\ dresult' # "panic"
            /\ ran.reply.tag = "Error"
            /\ state' = state]_vars

\* C20: when the key holds the decimal text of an integer v (an absent key counts
\* as 0) and v + d is inside the signed 64-bit range, INCR, INCRBY, DECR and DECRBY
\* store exactly the decimal text of v + d and reply Integer(v + d).
C20_ExactResult ==
    [][done' # done =>
        LET ran == done'[Len(done')]
            result == NumAdd(Held(state), Delta(ran.cmd))
        IN  InI64(result) =>
                /\ dresult' # "panic"
                /\ get(state', "a") = Some(to_text(result))
                /\ ran.reply.tag = "Integer"
                /\ ran.reply.val = result]_vars

\* C21: when the stored value does not parse as an i64 (text that is no number,
\* digits beyond the 64-bit range), INCR, DECR, INCRBY and DECRBY reply Error
\* "value is not an integer or out of range" and the store is as before: the
\* key's data, TTL and created_at included.
C21_UnparsableIsError ==
    [][done' # done =>
        LET ran == done'[Len(done')] IN
        (exists(state, "a") /\ ~parse_i64(Unwrap(get(state, "a"))).ok) =>
            /\ dresult' # "panic"
            /\ ran.reply.tag = "Error"
            /\ ran.reply.val = ErrNotInteger
            /\ state' = state]_vars

\* ------------------------------------------------------------------ claims: commands on keys
\* The time left to key at instant t, in ticks: none once the expiry instant has come.
Left(S, key, t) ==
    LET expires_at == Unwrap(S.keys[key].expires_at) IN IF expires_at > t THEN expires_at - t ELSE 0
\* The whole units in d ticks, per of them to the second.
WholeUnits(d, per) == CHOOSE n \in 0..(d * per) : n * TicksPerSec <= d * per /\ (n + 1) * TicksPerSec > d * per
\* What TTL (per = 1) and PTTL (per = 1000) are to reply for key in S at t, as the
\* claims state it: -2, -1 or the whole seconds or milliseconds left.
Remaining(S, cmd, t) ==
    IF ~exists(S, cmd.key) THEN -2
    ELSE IF ~HasTtl(S, cmd.key) THEN -1
    ELSE WholeUnits(Left(S, cmd.key, t), IF cmd.op = "ttl" THEN 1 ELSE 1000)
TtlQueries == {cmd \in TtlCmds : cmd.op \in {"ttl", "pttl"}}

OffsetOf(parts) == CHOOSE o \in SetrangeOffsets : parts[2] = Bulk(format_int(o))

\* C23: SETRANGE is accepted exactly when 0 <= offset < 2^29, so 536870911 is the
\* largest accepted offset; an offset of 2^29 or more and a negative offset are
\* rejected when the command is parsed, with InvalidCommandArgument, and the
\* store is unchanged.
C23_OffsetRange ==
    [][\A parts \in SetrangeArgs : ArgsParse("setrange", parts) =>
        IF 0 <= OffsetOf(parts) /\ OffsetOf(parts) < 2^29
        THEN dresult' = "ok" /\ IsSome(clocal'["c1"])
        ELSE dresult' = "InvalidCommandArgument" /\ ~IsSome(clocal'["c1"]) /\ state' = state]_vars

\* The bytes of the value of cmd.key at the positions start..end (both inclusive,
\* counted from 0, a negative offset o standing for len + o) that the value has.
RangeOf(S, cmd) ==
    IF ~exists(S, cmd.key) THEN <<>>
    ELSE LET value == Unwrap(get(S, cmd.key))
             len == Len(value)
             first == IF cmd.start < 0 THEN len + cmd.start ELSE cmd.start
             last == IF cmd.end < 0 THEN len + cmd.end ELSE cmd.end
             positions == {p \in 0..(len - 1) : first <= p /\ p <= last}
         IN  IF positions = {} THEN <<>>
             ELSE SubSeq(value, 1 + CHOOSE p \in positions : \A q \in positions : p <= q,
                                1 + CHOOSE p \in positions : \A q \in positions : q <= p)
RangeQueries == {cmd \in RangeCmds : cmd.op = "getrange"}

\* C24: GETRANGE K start end replies the bytes at the inclusive positions
\* start..end, a negative offset o counting as len + o and the range limited to
\* the length of the value; an inverted range, a range outside the value and an
\* absent key give the empty Bulk.
C24_Getrange ==
    [][\A cmd \in RangeQueries : KeyRun(cmd) =>
        /\ dresult' = "ok"
        /\ creply'["c1"] = Bulk(RangeOf(state, cmd))
        /\ state' = state]_vars

GetexQueries == {cmd \in GetexCmds : cmd.op = "getex"}
\* Every key other than key is in S2 what it was in S1.
OthersUntouched(S1, S2, key) ==
    \A k \in Keys \ {key} :
        /\ exists(S2, k) = exists(S1, k)
        /\ exists(S1, k) => S2.keys[k] = S1.keys[k]
        /\ EntriesOf(S2, k) = EntriesOf(S1, k)
\* The expiry of key in S is the instant at, in the value and in ttls.
ExpiresAt(S, key, at) ==
    /\ S.keys[key].expires_at = Some(at)
    /\ EntriesOf(S, key) = {<<at, key>>}

Listed(cmd) == {cmd.keys[i] : i \in 1..Len(cmd.keys)}
DelCmds == {cmd \in KeysCmds : cmd.op = "del"}

\* C26: DEL replies the number of listed keys that were present and that it has
\* removed, a key listed twice counting once; afterwards every listed key is
\* absent from keys and from ttls, and the keys not listed are untouched.
C26_Del ==
    [][\A cmd \in DelCmds : KeyRun(cmd) =>
        /\ creply'["c1"] = Integer(Cardinality({k \in Listed(cmd) : exists(state, k)}))
        /\ \A k \in Listed(cmd) : ~exists(state', k) /\ EntriesOf(state', k) = {}
        /\ \A k \in Keys \ Listed(cmd) :
              /\ exists(state', k) = exists(state, k)
              /\ exists(state, k) => state'.keys[k] = state.keys[k]
              /\ EntriesOf(state', k) = EntriesOf(state, k)]_vars

\* DEL a a has removed a, replied 1 and left b alone.
C26_Witness ==
    /\ ccmd["c1"] = Some([op |-> "del", keys |-> <<"a", "a">>])
    /\ creply["c1"] = Integer(1)
    /\ ~exists(state, "a")
    /\ exists(state, "b")
    /\ now > 0

PlainSets == {cmd \in KeysCmds : cmd.op = "set" /\ ~IsSome(cmd.ttl)}

\* C27: SET k v executed twice leaves the store as SET k v executed once does:
\* the same data, no TTL and the created_at that the key had after the first
\* SET. created_at changes only when the key is removed (DEL, GETDEL, expiry)
\* and inserted again: no step changes it for a key that stays, and a key that
\* is inserted gets the instant of the insertion.
C27_SetTwice ==
    [][/\ \A cmd \in PlainSets : (KeyRun(cmd) /\ ccmd["c1"] = Some(cmd)) =>
            /\ state' = state
            /\ state'.keys[cmd.key].data = cmd.value
            /\ ~HasTtl(state', cmd.key)
       /\ \A k \in Keys :
            /\ (exists(state, k) /\ exists(state', k)) =>
                    state'.keys[k].created_at = state.keys[k].created_at
            /\ (~exists(state, k) /\ exists(state', k)) => state'.keys[k].created_at = now]_vars

\* SET a 1 has run a second time, later than the key was created.
C27_Witness ==
    /\ ccmd["c1"] = Some(PlainSet("a", <<49>>))
    /\ IsSome(clocal["c1"])
    /\ Unwrap(clocal["c1"]).again
    /\ exists(state, "a")
    /\ state.keys["a"].created_at < Unwrap(clocal["c1"]).at

\* C29: DBSIZE replies exactly the number of keys in the keyspace, the keys whose
\* expiry instant has passed and that the reaper has not removed yet included.
C29_Dbsize ==
    [][KeyRun([op |-> "dbsize"]) =>
        /\ creply'["c1"] = Integer(Cardinality(DOMAIN state.keys))
        /\ state' = state]_vars

\* DBSIZE has counted a key at an instant at which its expiry had come.
C29_Witness ==
    /\ ccmd["c1"] = Some([op |-> "dbsize"])
    /\ creply["c1"] = Integer(2)
    /\ HasTtl(state, "a")
    /\ Unwrap(state.keys["a"].expires_at) <= Unwrap(clocal["c1"]).at

MultiNames == {"mset", "msetnx", "mget"}
NoKeys(name) == [name |-> name, parts |-> <<>>]

Suspended(c) == cpc[c] \in {"idle", "lock"}
ReaperSuspended == rpc = "wait"

\* C30: no task holds the store lock while it is suspended: a connection task
\* has released it before it awaits a read or a write of the socket, and the
\* reaper has released it before it sleeps or waits for a notification.
C30_NoLockWhileSuspended ==
    /\ \A c \in Conns : Suspended(c) => lock # c
    /\ ReaperSuspended => lock # "reaper"

\* The reaper waits after a sweep that removed a key while a connection that has
\* answered one command holds the lock for the next.
C30_Witness ==
    /\ ReaperSuspended
    /\ rexpired # {}
    /\ lock = "c1"
    /\ Suspended("c2")
    /\ \E i \in 1..Len(done) : done[i].conn = "c1"

\* ------------------------------------------------------------------ claims: the life of the reaper
\* C31: when the last Store handle held by the server and its connections is
\* dropped, the reaper task terminates: it does not run forever and does not
\* keep the keyspace alive on its own (the count of the Arc reaches zero).
C31_ReaperTerminates == (handles = 0) ~> (rpc = "done" /\ strong_count = 0)

\* ------------------------------------------------------------------ claims: the end of a connection

Roster ==
    CommandNames \cup
        { <<103, 101, 116, 101, 120>>,  \* getex
          <<105, 110, 99, 114, 98, 121, 102, 108, 111, 97, 116>>,  \* incrbyfloat
          <<109, 115, 101, 116>>,  \* mset
          <<109, 115, 101, 116, 110, 120>>,  \* msetnx
          <<112, 116, 116, 108>> }  \* pttl

\* Names of no variant: "foo", "gets", "se".
Strangers == {<<102, 111, 111>>, <<103, 101, 116, 115>>, <<115, 101>>}

to_uppercase(s) == [i \in 1..Len(s) |-> IF s[i] \in 97..122 THEN s[i] - 32 ELSE s[i]]
Capitalized(s) == [i \in 1..Len(s) |-> IF i = 1 /\ s[i] \in 97..122 THEN s[i] - 32 ELSE s[i]]

\* A name in lower case, in upper case and with a capital, followed by no
\* argument, by a key, or by a key and a value.
DispatchArgs == {<<>>, <<Bulk(<<97>>)>>, <<Bulk(<<97>>), Bulk(<<120>>)>>}
DispatchFrames ==
    {Array(<<Bulk(n)>> \o args) :
        n \in UNION {{name, to_uppercase(name), Capitalized(name)} : name \in Roster \cup Strangers},
        args \in DispatchArgs}

\* The variant a parsed Command is, by the name of its arm.
VariantOf(cmd) ==
    CASE cmd.op = "other" -> cmd.name
      [] cmd.op = "get" -> <<103, 101, 116>>
      [] cmd.op = "type" -> <<116, 121, 112, 101>>
      [] cmd.op = "set" -> <<115, 101, 116>>
      [] cmd.op = "exists" -> <<101, 120, 105, 115, 116, 115>>
      [] cmd.op = "command" -> <<99, 111, 109, 109, 97, 110, 100>>
      [] cmd.op = "dbsize" -> <<100, 98, 115, 105, 122, 101>>
      [] cmd.op = "info" -> <<105, 110, 102, 111>>
      [] cmd.op = "client" -> <<99, 108, 105, 101, 110, 116>>
      [] cmd.op = "module" -> <<109, 111, 100, 117, 108, 101>>
      [] cmd.op = "config" -> <<99, 111, 110, 102, 105, 103>>

\* Command::try_from(frame) on a frame just read: the Command, or the error.
Dispatch(frame) ==
    /\ lock = "free"
    /\ LET r == try_from(frame) IN
       /\ dresult' = r.kind
       /\ clocal' = [clocal EXCEPT !["c1"] = IF r.kind = "ok" THEN Some(r.cmd) ELSE None]
    /\ dframe' = Some(frame)
    /\ UNCHANGED <<state, lock, permit, now, rpc, rnext, rexpired, woke, cpc, csnap, done, ccmd, creply>>
    /\ UNCHANGED <<net, peer, sentlog, buffer, taken, dpc, wbuf, out, frameVars, codecVars, handles>>

\* Frames are dispatched against an empty store and against one that holds a key.
DispatchNext ==
    \/ \E frame \in DispatchFrames : Dispatch(frame)
    \/ KeyRun(PlainSet("a", <<49>>))
SpecDispatch == Init /\ [][DispatchNext]_vars

\* ------------------------------------------------------------------ claims: dispatch

\* The name a frame of DispatchFrames carries, in lower case.
NameOf(frame) == to_lowercase(frame.val[1].val)

\* C33: dispatch lower-cases the first element of the array and routes every
\* name of the roster (GETEX, INCRBYFLOAT, MSET, MSETNX and PTTL among them), in
\* any letter case, to its own variant: the name is not unknown, and the command
\* parsed is of that variant; any other name fails with UnknownCommand; the
\* store is left as it was. (The frame dispatched by a step is the one dframe
\* holds after it.)
C33_Dispatch ==
    [][\A frame \in {f \in DispatchFrames : dframe' = Some(f)} :
          Dispatch(frame) =>
              /\ state' = state
              /\ IF NameOf(frame) \in Roster
                 THEN /\ dresult' # "UnknownCommand"
                      /\ dresult' = "ok" => VariantOf(clocal'["c1"][1]) = NameOf(frame)
                 ELSE dresult' = "UnknownCommand"]_vars

\* ------------------------------------------------------------------ commands at the edges of their arguments
\* SET with a negative EX, GETRANGE on a value that is no UTF-8 and on one that
\* is, and the INCR family on the ends of the 64-bit range.
EdgeCmds ==
    {PlainSet("b", <<120, 121, 122>>), PlainSet("b", <<255>>), SetEx("b", <<49>>, 1), SetEx("b", <<49>>, -1),
     [op |-> "getrange", key |-> "b", start |-> 0, end |-> 1]}
EdgeTexts ==
    {to_text(Num(FALSE, <<0>>)), to_text(Num(FALSE, MagSub(Two63, <<1>>))), to_text(Num(TRUE, Two63))}
EdgeNext ==
    \/ \E cmd \in EdgeCmds : KeyRun(cmd)
    \/ \E text \in EdgeTexts : IncrSeed(text, FALSE)
    \/ \E cmd \in IncrCmds, build \in Builds : IncrRun(cmd, build)
SpecEdge == Init /\ [][EdgeNext]_vars

\* ------------------------------------------------------------------ claims: no abort under the lock

\* C34: executing a parsed command against a reachable store returns a reply
\* Frame and releases the lock: no execution aborts while it holds the lock, so
\* no task has panicked and the Mutex is free and not poisoned, also after INCR
\* at the 64-bit limit, DECRBY of the minimum integer, GETRANGE on a value that
\* is no UTF-8 and SET with a negative EX.
C34_NoAbort == dresult # "panic" /\ lock = "free"

\* ------------------------------------------------------------------ commands that only read
\* The read commands, on a key with an expiry, a key without and an absent key.
ReadQueries ==
    {[op |-> o, key |-> k] : o \in {"get", "strlen", "ttl", "pttl", "type"}, k \in Keys}
        \cup {[op |-> "mget", keys |-> <<"a", "b">>], [op |-> "exists", keys |-> <<"a", "b", "a">>],
              [op |-> "keys", pattern |-> Star], [op |-> "keys", pattern |-> <<97>>],
              [op |-> "scan"], [op |-> "dbsize"],
              [op |-> "getrange", key |-> "a", start |-> 0, end |-> -1],
              [op |-> "lcs", key1 |-> "a", key2 |-> "b", len |-> FALSE],
              [op |-> "lcs", key1 |-> "a", key2 |-> "b", len |-> TRUE]}
ReadCmds == {SetEx("a", <<120, 121>>, 1), PlainSet("b", <<121>>)} \cup ReadQueries
ReadNext == (\E cmd \in ReadCmds : KeyRun(cmd)) \/ Reaper \/ Tick
SpecRead == Init /\ [][ReadNext]_vars

\* ------------------------------------------------------------------ claims: commands that only read

\* The key's expiry instant has come and the reaper has not removed it yet.
ExpiredUnreaped(S, key, t) ==
    /\ key \in DOMAIN S.keys
    /\ IsSome(S.keys[key].expires_at)
    /\ Unwrap(S.keys[key].expires_at) <= t

\* C35: the read commands (GET, MGET, STRLEN, EXISTS, TTL, PTTL, TYPE, KEYS,
\* SCAN, DBSIZE, GETRANGE, LCS) leave keys and ttls as they were and notify no
\* one, and they check no expiry: a key whose expiry has come and that the
\* reaper has not removed yet is still returned by GET, counted by EXISTS (once
\* for each time it is listed), and its TTL is reported as 0.
C35_ReadsLeaveStore ==
    [][\A cmd \in {c \in ReadQueries : ccmd'["c1"] = Some(c)} :
          KeyRun(cmd) =>
              /\ state' = state
              /\ permit' = permit
              /\ dresult' = "ok"
              /\ ExpiredUnreaped(state, "a", now) =>
                    /\ cmd = [op |-> "get", key |-> "a"] => creply'["c1"] = Bulk(state.keys["a"].data)
                    /\ cmd.op = "exists" =>
                          creply'["c1"] = Integer(Cardinality({i \in 1..Len(cmd.keys) : cmd.keys[i] \in DOMAIN state.keys}))
                    /\ cmd = [op |-> "ttl", key |-> "a"] => creply'["c1"] = Integer(0)]_vars

\* GET a has just returned the value of a, whose expiry instant had come.
C35_Witness ==
    /\ ccmd["c1"] = Some([op |-> "get", key |-> "a"])
    /\ dresult = "ok"
    /\ creply["c1"] = Bulk(<<120, 121>>)
    /\ clocal["c1"] = Some([at |-> now, again |-> FALSE])
    /\ ExpiredUnreaped(state, "a", now)

\* ------------------------------------------------------------------ commands that rewrite a value
\* What a command of the INCR family that ran as e leaves: none of them notifies.
IncrFamilyOutcome(e) == [state |-> e.state, notify |-> FALSE, reply |-> e.reply]

\* APPEND, SETRANGE and the INCR family: the reply, a panic as None.
RewriteExec(S, cmd, build, t) ==
    CASE cmd.op = "append" -> AppendExec(S, cmd, t)
      [] cmd.op = "setrange" -> SetrangeExec(S, cmd, t)
      [] OTHER -> IncrFamilyOutcome(IncrFamilyExec(S, cmd, build, t))

RewriteCmds ==
    {[op |-> "append", key |-> "a", value |-> <<50>>],
     [op |-> "setrange", key |-> "a", offset |-> 1, value |-> <<53>>],
     [op |-> "setrange", key |-> "a", offset |-> 0, value |-> <<>>],
     [op |-> "incr", key |-> "a"], [op |-> "decr", key |-> "a"],
     [op |-> "incrby", key |-> "a", n |-> Num(FALSE, <<1, 0>>)],
     [op |-> "decrby", key |-> "a", n |-> Num(FALSE, <<1, 0>>)]}

\* How many of the commands run in one behaviour.
MaxRewrites == 1

\* The store, the connection and the lock after a command that ran as e: the
\* task that panics leaves the Mutex poisoned.
RewriteDone(cmd, e) ==
    /\ state' = e.state
    /\ permit' = (permit \/ e.notify)
    /\ ccmd' = [ccmd EXCEPT !["c1"] = Some(cmd)]
    /\ creply' = [creply EXCEPT !["c1"] = e.reply]
    /\ dresult' = IF e.reply = None THEN "panic" ELSE "ok"
    /\ lock' = IF e.reply = None THEN "poisoned" ELSE lock
    /\ done' = Append(done, [conn |-> "c1", cmd |-> cmd, reply |-> e.reply])

\* One of the commands executes on connection c1, MaxRewrites of them at most.
RewriteRun(cmd, build) ==
    /\ lock = "free"
    /\ dresult # "panic"
    /\ Len(done) < MaxRewrites
    /\ RewriteDone(cmd, RewriteExec(state, cmd, build, now))
    /\ UNCHANGED <<now, rpc, rnext, rexpired, woke, cpc, clocal, csnap>>
    /\ UNCHANGED <<net, peer, sentlog, buffer, taken, dframe, dpc, wbuf, out, frameVars, codecVars, handles>>

\* The key is set with an expiry, to a number or to a text, or without one; the
\* commands rewrite it while the clock runs and the reaper sweeps.
RewriteSeeds == {SetEx("a", <<49>>, 1), SetEx("a", <<120>>, 1), PlainSet("a", <<49>>), SetEx("b", <<49>>, 1)}
RewriteNext ==
    \/ \E cmd \in RewriteSeeds : KeyRun(cmd)
    \/ \E cmd \in RewriteCmds, build \in Builds : RewriteRun(cmd, build)
    \/ Reaper
    \/ Tick
SpecRewrite == Init /\ [][RewriteNext]_vars

\* ------------------------------------------------------------------ claims: commands that rewrite a value

\* The command that ran succeeded: it replied, and not with an Error.
Succeeded(reply) == reply # None /\ reply.tag # "Error"

\* C36: APPEND, SETRANGE and the INCR family rewrite the value through set():
\* after one of them succeeded on a key that existed, the key's created_at is
\* what it was, the key has no expires_at, ttls holds no entry for the key, and
\* the other keys and their entries are as before.
C36_RewriteDropsTtl ==
    [][\A cmd \in {c \in RewriteCmds : ccmd'["c1"] = Some(c)}, build \in Builds :
          (RewriteRun(cmd, build) /\ cmd.key \in DOMAIN state.keys /\ Succeeded(creply'["c1"])) =>
              /\ cmd.key \in DOMAIN state'.keys
              /\ state'.keys[cmd.key].created_at = state.keys[cmd.key].created_at
              /\ state'.keys[cmd.key].expires_at = None
              /\ \A e \in state'.ttls : e[2] # cmd.key
              /\ \A k \in DOMAIN state.keys \ {cmd.key} : k \in DOMAIN state'.keys /\ state'.keys[k] = state.keys[k]
              /\ {e \in state'.ttls : e[2] # cmd.key} = {e \in state.ttls : e[2] # cmd.key}]_vars

\* INCR has just succeeded on a key that was created at an earlier instant and
\* that had an expiry: the key holds "2" with no expiry and ttls is empty.
C36_Witness ==
    /\ ccmd["c1"] = Some([op |-> "incr", key |-> "a"])
    /\ dresult = "ok"
    /\ Len(done) = 1
    /\ "a" \in DOMAIN state.keys
    /\ state.keys["a"].data = <<50>>
    /\ state.keys["a"].created_at < now
    /\ state.keys["a"].expires_at = None
    /\ state.ttls = {}

\* ------------------------------------------------------------------ the CommandParser, call by call (src/commands/mod.rs)
\* The elements a command's array may hold after the name: "a", "1", bytes that
\* are no UTF-8 and an Array.
ParserElems == {Bulk(<<97>>), Simple(<<49>>), Bulk(<<255>>), Array(<<>>)}
ParserParts == SeqsUpTo(ParserElems, MaxArr)

\* CommandParser { parts: frames.into_iter() }, a local of try_from on connection c2.
\* orig, yielded, calls and failed are history: the parts at the start, the
\* elements of the successful calls, the number of calls, whether a call failed
\* with another error than EndOfStream.
ParserNew(parts) ==
    /\ clocal' = [clocal EXCEPT !["c2"] =
                     Some([orig |-> parts, parts |-> parts, yielded |-> <<>>, calls |-> 0,
                           failed |-> FALSE, last |-> "none"])]
    /\ UNCHANGED <<cpc, ccmd, creply, csnap, done, storeVars, drvVars, frameVars, codecVars>>

\* parser.next_string(), parser.next_bytes() or parser.next_integer()
ParserCall(method) ==
    /\ IsSome(clocal["c2"])
    /\ LET p == Unwrap(clocal["c2"])
           r == CASE method = "next_string" -> next_string(p.parts)
                  [] method = "next_bytes" -> next_bytes(p.parts)
                  [] method = "next_integer" -> next_integer(p.parts)
       IN  /\ p.calls < Len(p.orig) + 2
           /\ clocal' = [clocal EXCEPT !["c2"] =
                            Some([orig |-> p.orig, parts |-> r.rest,
                                  yielded |-> IF r.kind = "ok" THEN Append(p.yielded, Head(p.parts)) ELSE p.yielded,
                                  calls |-> p.calls + 1,
                                  failed |-> (p.failed \/ r.kind \notin {"ok", "EndOfStream"}),
                                  last |-> r.kind])]
    /\ UNCHANGED <<cpc, ccmd, creply, csnap, done, storeVars, drvVars, frameVars, codecVars>>

\* DEL, EXISTS, KEYS, LCS and SET with no argument, with keys, with an optional
\* last argument and with elements that are no string.
ParserNames == {"del", "exists", "keys", "lcs", "set"}
ParserArgs ==
    {<<>>, <<Bulk(<<97>>)>>, <<Bulk(<<97>>), Bulk(<<98>>)>>, <<Bulk(<<97>>), Simple(<<49>>)>>,
     <<Bulk(<<97>>), Bulk(<<98>>), Bulk(OptionLen)>>, <<Array(<<>>)>>}
ParserNext ==
    \/ \E parts \in ParserParts : ParserNew(parts)
    \/ \E method \in {"next_string", "next_bytes", "next_integer"} : ParserCall(method)
    \/ \E name \in ParserNames, parts \in ParserArgs : ArgsParse(name, parts)
SpecParser == Init /\ [][ParserNext]_vars

\* ------------------------------------------------------------------ claims: the CommandParser

\* C37: the CommandParser yields the elements of the array strictly in order,
\* one for each successful next_* call, which takes the first element left;
\* once the elements are exhausted every next_* call fails with EndOfStream
\* (and none does before); so DEL, EXISTS and KEYS given no key fail with
\* EndOfStream, and an optional last argument that is absent is found by the
\* same error: LCS with two keys and SET with a key and a value are accepted.
C37_ParserInOrder ==
    [][/\ \A method \in {"next_string", "next_bytes", "next_integer"} :
             ParserCall(method) =>
                 LET p == Unwrap(clocal["c2"])
                     q == Unwrap(clocal'["c2"])
                 IN  /\ p.parts = <<>> => (q.last = "EndOfStream" /\ q.parts = <<>>)
                     /\ q.last = "EndOfStream" => p.parts = <<>>
                     /\ q.last = "ok" => (q.parts = Tail(p.parts) /\ q.yielded = Append(p.yielded, Head(p.parts)))
                     /\ ~q.failed => (/\ q.yielded = SubSeq(q.orig, 1, Len(q.yielded))
                                      /\ q.parts = SubSeq(q.orig, Len(q.yielded) + 1, Len(q.orig)))
       /\ \A name \in ParserNames :
          \A parts \in {x \in ParserArgs : ccmd'["c1"] = Some([name |-> name, parts |-> x])} :
             ArgsParse(name, parts) =>
                 /\ (name \in {"del", "exists", "keys"} /\ parts = <<>>) => dresult' = "EndOfStream"
                 /\ (name = "lcs" /\ parts = <<Bulk(<<97>>), Bulk(<<98>>)>>) =>
                        (dresult' = "ok" /\ ~Unwrap(clocal'["c1"]).len)
                 /\ (name = "set" /\ parts = <<Bulk(<<97>>), Simple(<<49>>)>>) =>
                        (dresult' = "ok" /\ Unwrap(clocal'["c1"]).ttl = None)]_vars

\* Two calls took "a" and then "1" in this order, and a third call found the
\* parser exhausted.
C37_Witness ==
    /\ IsSome(clocal["c2"])
    /\ Unwrap(clocal["c2"]).orig = <<Bulk(<<97>>), Simple(<<49>>)>>
    /\ Unwrap(clocal["c2"]).yielded = <<Bulk(<<97>>), Simple(<<49>>)>>
    /\ Unwrap(clocal["c2"]).calls = 3
    /\ Unwrap(clocal["c2"]).last = "EndOfStream"

\* ------------------------------------------------------------------ LCS on two keys
\* The values of the two keys: "", "ab", "ba", "aab", "é", "è", "éa", "aé",
\* "èéa", "èaé" and the byte 255, which is no UTF-8.
LcsTexts ==
    {<<>>, <<97, 98>>, <<98, 97>>, <<97, 97, 98>>, <<195, 169>>, <<195, 168>>,
     <<195, 169, 97>>, <<97, 195, 169>>, <<195, 168, 195, 169, 97>>, <<195, 168, 97, 195, 169>>,
     <<255>>}
LcsCmds ==
    {PlainSet(k, v) : k \in Keys, v \in LcsTexts}
        \cup {[op |-> "lcs", key1 |-> "a", key2 |-> "b", len |-> l] : l \in BOOLEAN}
LcsNext == \E cmd \in LcsCmds : KeyRun(cmd)
SpecLcs == Init /\ [][LcsNext]_vars

\* ------------------------------------------------------------------ claims: LCS

RECURSIVE IsSubsequence(_, _)
\* x is what is left of y when some of its elements are taken out.
IsSubsequence(x, y) ==
    IF x = <<>> THEN TRUE
    ELSE IF y = <<>> THEN FALSE
    ELSE IF Head(x) = Head(y) THEN IsSubsequence(Tail(x), Tail(y))
    ELSE IsSubsequence(x, Tail(y))

\* The elements of y at the positions of I, in order.
Pick(y, I) ==
    LET RECURSIVE from(_)
        from(i) == IF i > Len(y) THEN <<>>
                   ELSE IF i \in I THEN <<y[i]>> \o from(i + 1) ELSE from(i + 1)
    IN  from(1)

\* The greatest length of a subsequence of both x and y.
LongestCommon(x, y) ==
    LET common == {Len(Pick(x, I)) : I \in {J \in SUBSET (1..Len(x)) : IsSubsequence(Pick(x, J), y)}}
    IN  CHOOSE n \in common : \A m \in common : m <= n

\* The text of a key, an absent key being the empty text, as its chars or as its bytes.
TextOf(key, unit) ==
    LET bytes == IF IsSome(get(state, key)) THEN Unwrap(get(state, key)) ELSE <<>> IN
    IF unit = "chars" THEN chars(bytes) ELSE bytes

\* LCS a b has just run on two texts: its reply is a longest common subsequence
\* of the two, or with LEN the length of one, lengths being counted in unit.
LcsHolds(unit) ==
    (/\ dresult = "ok"
     /\ Unwrap(ccmd["c1"]).op = "lcs"
     /\ \A k \in Keys : IsSome(get(state, k)) => from_utf8(Unwrap(get(state, k)))) =>
        LET a == TextOf("a", unit)
            b == TextOf("b", unit)
            reply == creply["c1"]
            res == IF unit = "chars" THEN chars(reply.val) ELSE reply.val
        IN  IF Unwrap(ccmd["c1"]).len
            THEN reply = Integer(LongestCommon(a, b))
            ELSE /\ reply.tag = "Bulk"
                 /\ IsSubsequence(res, a)
                 /\ IsSubsequence(res, b)
                 /\ Len(res) = LongestCommon(a, b)

\* C38: lcs(a, b) returns a string that is a subsequence of both a and b and
\* whose length is the maximum over all common subsequences of a and b; LCS K1
\* K2 LEN replies that length, and a missing key is treated as the empty string
\* (an empty Bulk, or 0 with LEN). The length is counted in chars or in bytes.
C38_Lcs == LcsHolds("chars") \/ LcsHolds("bytes")

\* ------------------------------------------------------------------ claims: SETRANGE

\* C39: the Integer reply of SETRANGE K offset V is the byte length of the value
\* stored at K after the command, also when the value that was there extends
\* beyond offset + len(V); the bytes of that value outside of
\* [offset, offset + len(V)) are left as they were.
C39_SetrangeLength ==
    [][(ArgsExec /\ Unwrap(clocal["c1"]).op = "setrange") =>
          LET cmd == Unwrap(clocal["c1"])
              before == IF cmd.key \in DOMAIN state.keys THEN state.keys[cmd.key].data ELSE <<>>
              after == state'.keys[cmd.key].data
          IN  /\ creply'["c1"] = Integer(Len(after))
              /\ \A i \in 1..Len(before) :
                    (i <= cmd.offset \/ i > cmd.offset + Len(cmd.value)) =>
                        (i <= Len(after) /\ after[i] = before[i])]_vars

\* ------------------------------------------------------------------ INCRBYFLOAT on f64 values
\* An f64 is kept exactly, as a sign and the integer that it is a multiple of
\* 2^-e of: [neg, mag, e] stands for mag * 2^-e, with mag odd or e = 0. The
\* model holds the values below 2^53 in magnitude.
Two52 == <<4, 5, 0, 3, 5, 9, 9, 6, 2, 7, 3, 7, 0, 4, 9, 6>>

\* ds without the zeros in front of it
StripZeros(ds) ==
    LET digits == {i \in 1..Len(ds) : ds[i] # 0} IN
    IF digits = {} THEN <<0>>
    ELSE SubSeq(ds, CHOOSE i \in digits : \A j \in digits : i <= j, Len(ds))

\* a * 2: a digit of 5 or more carries one into the digit before it, whatever
\* is carried into it.
Double(a) ==
    LET n == Len(a) IN
    StripZeros([i \in 1..(n + 1) |->
                   (2 * (IF i = 1 THEN 0 ELSE a[i - 1])
                      + (IF i <= n /\ a[i] >= 5 THEN 1 ELSE 0)) % 10])

\* a >> 1: what is left of the digits before a digit is whether the digit
\* before it is odd.
Halve(a) ==
    StripZeros([i \in 1..Len(a) |->
                   ((IF i = 1 THEN 0 ELSE a[i - 1] % 2) * 10 + a[i]) \div 2])

\* a * 5, as a * 10 / 2
Times5(a) == Halve(a \o <<0>>)

\* a + b: a one is carried into a digit when some digit after it overflows and
\* every digit between the two makes nine.
Plus(a, b) ==
    LET n == (IF Len(a) > Len(b) THEN Len(a) ELSE Len(b)) + 1
        pa == Pad(a, n)
        pb == Pad(b, n)
        carry(i) == \E j \in (i + 1)..n :
                        pa[j] + pb[j] >= 10 /\ \A k \in (i + 1)..(j - 1) : pa[k] + pb[k] = 9
    IN  StripZeros([i \in 1..n |-> (pa[i] + pb[i] + (IF carry(i) THEN 1 ELSE 0)) % 10])

\* a - b for a >= b: a one is borrowed from a digit when some digit after it
\* falls short and every digit between the two is level.
Minus(a, b) ==
    LET n == Len(a)
        pb == Pad(b, n)
        borrow(i) == \E j \in (i + 1)..n :
                         a[j] < pb[j] /\ \A k \in (i + 1)..(j - 1) : a[k] = pb[k]
    IN  StripZeros([i \in 1..n |-> (a[i] - pb[i] - (IF borrow(i) THEN 1 ELSE 0) + 10) % 10])

\* x + y on signed values
SignedPlus(x, y) ==
    IF x.neg = y.neg THEN Num(x.neg, Plus(x.mag, y.mag))
    ELSE IF MagLess(x.mag, y.mag) THEN Num(y.neg, Minus(y.mag, x.mag))
    ELSE Num(x.neg, Minus(x.mag, y.mag))

RECURSIVE round_shift(_, _, _, _)
\* mag shifted right until it fits the 53 bits of a significand, with the last
\* bit shifted out (round) and whether any bit before it was set (sticky).
round_shift(mag, round, sticky, e) ==
    IF MagLess(mag, Two53) THEN [q |-> mag, round |-> round, sticky |-> sticky, e |-> e]
    ELSE round_shift(Halve(mag), Odd(mag), sticky \/ round, e + 1)

RECURSIVE times_pow2(_, _)
\* a * 2^n
times_pow2(a, n) ==
    IF n = 0 \/ a = <<0>> THEN a
    ELSE IF n = 1 THEN Double(a)
    ELSE times_pow2(times_pow2(a, n \div 2), n - n \div 2)

RECURSIVE times_pow5(_, _)
\* a * 5^n
times_pow5(a, n) ==
    IF n = 0 \/ a = <<0>> THEN a
    ELSE IF n = 1 THEN Times5(a)
    ELSE times_pow5(times_pow5(a, n \div 2), n - n \div 2)

RECURSIVE halves(_, _)
\* a >> n
halves(a, n) ==
    IF n = 0 \/ a = <<0>> THEN a
    ELSE IF n = 1 THEN Halve(a)
    ELSE halves(halves(a, n \div 2), n - n \div 2)

\* x with k factors of two taken out of mag and e, where both have them
drop_twos(x, k) ==
    LET h == halves(x.mag, k) IN
    IF x.e >= k /\ times_pow2(h, k) = x.mag THEN [mag |-> h, e |-> x.e - k] ELSE x

\* The same value with mag odd or e = 0.
reduce(neg, mag, e) ==
    IF mag = <<0>> THEN [neg |-> FALSE, mag |-> <<0>>, e |-> 0]
    ELSE LET x == [mag |-> mag, e |-> e]
             r == drop_twos(drop_twos(drop_twos(drop_twos(drop_twos(drop_twos(x, 32), 16), 8), 4), 2), 1)
         IN  [neg |-> neg, mag |-> r.mag, e |-> r.e]

\* 10^s
Pow10(s) == <<1>> \o [i \in 1..s |-> 0]

\* The integer part of a / 10^s
Div10(a, s) == IF Len(a) > s THEN SubSeq(a, 1, Len(a) - s) ELSE <<0>>

\* a / 10^s rounded to the nearest integer, ties to even
RoundDiv10(a, s) ==
    IF s = 0 THEN a
    ELSE LET p == Pad(a, IF Len(a) > s THEN Len(a) ELSE s + 1)
             q == StripZeros(SubSeq(p, 1, Len(p) - s))
             r == StripZeros(SubSeq(p, Len(p) - s + 1, Len(p)))
             twice == Double(r)
             up == MagLess(Pow10(s), twice) \/ (twice = Pow10(s) /\ Odd(q))
         IN  IF up THEN Plus(q, <<1>>) ELSE q

RECURSIVE scale_from(_, _, _)
\* digits doubled until digits / 10^s is 2^52 or above, with the count at e
scale_from(digits, s, e) ==
    IF MagLess(Div10(digits, s), Two52) THEN scale_from(Double(digits), s, e + 1)
    ELSE [digits |-> digits, e |-> e]

\* digits * 2^e for the first e that brings digits * 2^e / 10^s to 2^52 or
\* above: the search starts from an e that the count of digits shows to be
\* at or below it (10^3 < 2^10).
scale_up(digits, s) ==
    LET l == Len(digits) - s
        least == IF l > 0 THEN 52 - (10 * l + 2) \div 3 ELSE 52 + (33 * (0 - l)) \div 10
        from == IF least < 0 THEN 0 ELSE least
    IN  scale_from(times_pow2(digits, from), s, from)

\* The f64 nearest to digits / 10^s, ties to even.
nearest_f64(neg, digits, s) ==
    IF StripZeros(digits) = <<0>> THEN reduce(FALSE, <<0>>, 0)
    ELSE LET up == scale_up(StripZeros(digits), s) IN
         reduce(neg, RoundDiv10(up.digits, s), up.e)

\* str::parse::<f64>() for the texts of the model: an optional sign, digits, and
\* an optional point followed by digits.
parse_f64(s) ==
    LET signed == s # <<>> /\ s[1] \in {43, 45}
        body == IF signed THEN Tail(s) ELSE s
        points == {i \in 1..Len(body) : body[i] = 46}
        point == IF points = {} THEN Len(body) + 1 ELSE CHOOSE i \in points : TRUE
        digits == SubSeq(body, 1, point - 1) \o SubSeq(body, point + 1, Len(body))
    IN  IF Cardinality(points) > 1 \/ digits = <<>> \/ \E i \in 1..Len(digits) : ~IsDigit(digits[i])
        THEN [ok |-> FALSE, v |-> reduce(FALSE, <<0>>, 0)]
        ELSE [ok |-> TRUE,
              v |-> nearest_f64(signed /\ s[1] = 45, [i \in 1..Len(digits) |-> digits[i] - 48],
                                Len(digits) - (point - 1))]

\* x + y on f64: the exact sum, rounded to the 53 bits of a significand, ties to even.
add_f64(x, y) ==
    LET e == IF x.e > y.e THEN x.e ELSE y.e
        sum == SignedPlus(Num(x.neg, times_pow2(x.mag, e - x.e)), Num(y.neg, times_pow2(y.mag, e - y.e)))
        s == round_shift(sum.mag, FALSE, FALSE, 0)
        up == s.round /\ (s.sticky \/ Odd(s.q))
    IN  reduce(sum.neg, IF up THEN Plus(s.q, <<1>>) ELSE s.q, e - s.e)

\* f64::fract() == 0.0
is_integral(v) == v.e = 0

\* The digits of ds as ASCII, with a point before the last p of them.
decimal_text(neg, ds, p) ==
    LET padded == Pad(ds, IF Len(ds) > p THEN Len(ds) ELSE p + 1)
        ascii == [i \in 1..Len(padded) |-> 48 + padded[i]]
    IN  (IF neg THEN <<45>> ELSE <<>>)
            \o SubSeq(ascii, 1, Len(ascii) - p)
            \o (IF p = 0 THEN <<>> ELSE <<46>> \o SubSeq(ascii, Len(ascii) - p + 1, Len(ascii)))

\* v rounded to p digits after the point, ties to even: the digits, point left out.
fixed_digits(v, p) ==
    LET exact == times_pow5(v.mag, v.e) IN
    IF v.e <= p THEN exact \o [i \in 1..(p - v.e) |-> 0] ELSE RoundDiv10(exact, v.e - p)

\* fixed_digits of the value whose decimal digits are exact, e of them after the point
cut_digits(exact, e, p) == IF e <= p THEN exact ELSE RoundDiv10(exact, e - p)

\* format!("{:.17}", v): 17 digits after the point
format_17(v) == decimal_text(v.neg, fixed_digits(v, 17), 17)

\* format!("{:.0}", v)
format_0(v) == decimal_text(v.neg, fixed_digits(v, 0), 0)

RECURSIVE shortest(_, _, _, _)
\* The fewest digits after the point, between lo and hi, that parse back to v:
\* more digits come no further from v, and hi of them parse back to it.
shortest(v, exact, lo, hi) ==
    IF lo >= hi THEN hi
    ELSE LET mid == (lo + hi) \div 2 IN
         IF nearest_f64(v.neg, cut_digits(exact, v.e, mid), mid) = v
         THEN shortest(v, exact, lo, mid)
         ELSE shortest(v, exact, mid + 1, hi)

\* v with p digits after the point, exact being its decimal digits
cut_text(v, exact, p) == decimal_text(v.neg, cut_digits(exact, v.e, p), p)

\* v in the shortest decimal that parses back to it, exact being its decimal digits
shortest_text(v, exact) == cut_text(v, exact, shortest(v, exact, 0, v.e))

\* f64's Display (to_string): the shortest decimal that parses back to the value.
f64_to_string(v) == shortest_text(v, times_pow5(v.mag, v.e))

\* incr_by, from self.set(key, value.clone()) on: the text is stored and parsed
\* back into the value returned.
incr_by_f64_set(S, key, value, t) ==
    [state |-> set(S, key, value, t), ok |-> parse_f64(value).ok, value |-> parse_f64(value).v]

\* incr_by, from the formatting of the sum on
incr_by_f64_format(S, key, sum, t) ==
    incr_by_f64_set(S, key, IF is_integral(sum) THEN format_0(sum) ELSE format_17(sum), t)

\* incr_by, from value += increment on: parsed is the value of the key, 0 for
\* an absent key
incr_by_f64_add(S, key, parsed, increment, t) ==
    IF ~parsed.ok THEN [state |-> S, ok |-> FALSE, value |-> parsed.v]
    ELSE incr_by_f64_format(S, key, add_f64(parsed.v, increment), t)

\* The value under a key as an f64: the text parsed, 0 for an absent key.
get_f64(cur) ==
    IF IsSome(cur) /\ is_utf8(Unwrap(cur)) THEN parse_f64(Unwrap(cur))
    ELSE [ok |-> ~IsSome(cur), v |-> reduce(FALSE, <<0>>, 0)]

\* incr_by::<f64, f64>: [state, ok, value]
incr_by_f64(S, key, increment, t) ==
    incr_by_f64_add(S, key, get_f64(get(S, key)), increment, t)

\* IncrByFloat::exec, from the match on the result of incr_by on
IncrByFloatReply(r) ==
    [state |-> r.state, notify |-> FALSE,
     reply |-> IF r.ok THEN Simple(f64_to_string(r.value)) ELSE Error(ErrNotInteger)]

\* IncrByFloat::exec
IncrByFloatExec(S, cmd, t) == IncrByFloatReply(incr_by_f64(S, cmd.key, cmd.increment, t))

\* The values under the key before INCRBYFLOAT: "10.50", "0.1", "3", "x".
FloatTexts == { <<49, 48, 46, 53, 48>>, <<48, 46, 49>>, <<51>>, <<120>> }

\* The increments: 10, 0.1, 1.5 and -0.5, each the f64 of the argument's text.
FloatIncrements ==
    { parse_f64(text).v : text \in { <<49, 48>>, <<48, 46, 49>>, <<49, 46, 53>>, <<45, 48, 46, 53>> } }

FloatCmds == {[op |-> "incrbyfloat", key |-> "a", increment |-> d] : d \in FloatIncrements}

\* SET a text on the empty store, before any INCRBYFLOAT.
FloatSeed(text) ==
    /\ lock = "free"
    /\ done = <<>>
    /\ ~exists(state, "a")
    /\ state' = set(state, "a", text, now)
    /\ UNCHANGED <<lock, permit, now, rpc, rnext, rexpired, woke, connVars, drvVars, frameVars, codecVars, handles>>

\* The store and the log of replies after a command that ran as e.
FloatDone(cmd, e) ==
    /\ state' = e.state
    /\ done' = Append(done, [conn |-> "c1", cmd |-> cmd, reply |-> e.reply])

\* One INCRBYFLOAT executes under the lock.
FloatRun(cmd) ==
    /\ lock = "free"
    /\ Len(done) < MaxIncr
    /\ FloatDone(cmd, IncrByFloatExec(state, cmd, now))
    /\ dresult' = "ok"
    /\ UNCHANGED <<lock, permit, now, rpc, rnext, rexpired, woke, cpc, ccmd, clocal, creply, csnap>>
    /\ UNCHANGED <<net, peer, sentlog, buffer, taken, dframe, dpc, wbuf, out, frameVars, codecVars, handles>>

FloatNext ==
    \/ \E text \in FloatTexts : FloatSeed(text)
    \/ \E cmd \in FloatCmds : FloatRun(cmd)

\* INCRBYFLOAT commands against one key of one store.
SpecFloat == Init /\ [][FloatNext]_vars

\* ------------------------------------------------------------------ claims: INCRBYFLOAT
RECURSIVE trim_zeros(_)
\* A decimal text without the zeros that end its fraction.
trim_zeros(text) ==
    IF text # <<>> /\ text[Len(text)] = 48 THEN trim_zeros(SubSeq(text, 1, Len(text) - 1)) ELSE text

\* A value that is not integral, written with 17 significant digits: 10.6 for
\* the f64 nearest to 10.6.
seventeen_digits(v) ==
    LET exact == times_pow5(v.mag, v.e)
        p == 17 - (Len(exact) - v.e)
    IN  trim_zeros(decimal_text(v.neg, fixed_digits(v, p), p))

\* The text of a result: an integer without a decimal point, or 17 digits.
float_text(v) == IF is_integral(v) THEN format_0(v) ELSE seventeen_digits(v)

\* C40: an INCRBYFLOAT that succeeds stores under the key, and replies with,
\* the sum as an integer without a decimal point when its fractional part is
\* zero ("10" for 10 added to an absent key), and otherwise the sum with 17
\* digits of precision (10.6 for 0.1 added to "10.50").
C40_FloatFormat ==
    [][\A cmd \in {c \in FloatCmds : Len(done') = Len(done) + 1 /\ done'[Len(done')].cmd = c} :
          (FloatRun(cmd) /\ done'[Len(done')].reply.tag = "Simple") =>
              /\ state'.keys[cmd.key].data = float_text(add_f64(get_f64(get(state, cmd.key)).v, cmd.increment))
              /\ done'[Len(done')].reply = Simple(state'.keys[cmd.key].data)]_vars

====
